---------------------------- MODULE Spec2Model ----------------------------
(***************************************************************************)
(* Model of synapse-miner: the HTTP corpus walker                          *)
(* (SynapseMiner.process_http_files), the command line entry points that   *)
(* start it (main, run_automated_workflow) and the article splitter        *)
(* (SynapseMiner._iter_articles).                                          *)
(*                                                                         *)
(* Strings are sequences of tokens.  File names and resume markers are     *)
(* token sequences such as <<"PMC","1","_","PMC","2",".xml.gz">>, and the  *)
(* regular expressions of the code are matched on those tokens.  Corpus    *)
(* text is a sequence of one-character strings.                            *)
(***************************************************************************)
EXTENDS Integers, Sequences, FiniteSets, TLC

\* ------------------------------------------------------------------ bounds
\* Longest directory listing (number of anchors in the page).
MaxListing == 2
\* Environment failures other than failed downloads (listing fetch, scan,
\* disk) injected in one run; failed downloads are bounded by the retry loop.
MaxFaults == 2
\* Longest corpus stream, in pieces (markers or text characters).
MaxPieces == 6
\* Largest read chunk size tried by the splitter, in characters.
MaxChunk == 4
\* Most articles in one scanned file.
MaxArticles == 3
\* The small batch size tried by the scan next to the one of the code.
MaxBatch == 2
\* Longest article text, in pieces (words, digit runs, separators).
MaxText == 4
\* Most calls made on the trackers of one tracking file.
MaxCalls == 3
\* Most lines of a corpus file.
MaxLines == 2

\* ------------------------------------------------- token strings and regexes
\* Digit strings that occur in the modelled names, with int() of each.
DigitStrs == {"1", "2", "9", "10", "11", "19"}

IntOf(d) ==
    CASE d = "1" -> 1 [] d = "2" -> 2 [] d = "9" -> 9
      [] d = "10" -> 10 [] d = "11" -> 11 [] d = "19" -> 19

\* A corpus file name PMC<s>_PMC<e>.xml.gz.
FileName(s, e) == <<"PMC", s, "_", "PMC", e, ".xml.gz">>

F1a == FileName("1", "2")
F1b == FileName("1", "9")
F2 == FileName("2", "9")
F10 == FileName("10", "19")
\* An archive whose name carries no range.
NoRange == <<"readme", ".xml.gz">>

\* The hrefs a listing page is made of.
Hrefs == {F1a, F1b, F2, F10, NoRange}

\* The positions where PMC(\d+)_PMC(\d+) matches in a token string.
RangeMatches(str) ==
    { i \in 1..Len(str) :
        /\ i + 4 <= Len(str)
        /\ str[i] = "PMC"
        /\ str[i + 1] \in DigitStrs
        /\ str[i + 2] = "_"
        /\ str[i + 3] = "PMC"
        /\ str[i + 4] \in DigitStrs }

HasRange(str) == RangeMatches(str) # {}

\* re.search takes the leftmost match; group(1) is the first number.
RangeStartStr(str) ==
    LET matches == RangeMatches(str)
        i == CHOOSE k \in matches : \A j \in matches : k <= j
    IN  str[i + 1]

\* The characters (code points) of a digit string.
Ord(d) ==
    CASE d = "1" -> <<49>> [] d = "2" -> <<50>> [] d = "9" -> <<57>>
      [] d = "10" -> <<49, 48>> [] d = "11" -> <<49, 49>>
      [] d = "19" -> <<49, 57>>

\* The characters of a corpus file name after its first PMC and up to the
\* second number: digits, underscore, PMC, digits.
NameChars(f) == Ord(f[2]) \o <<95, 80, 77, 67>> \o Ord(f[5])

\* The order of Python strings: by the first character that differs, a proper
\* prefix first.
StrLess(a, b) ==
    \E k \in 1..Len(b) :
        /\ \A j \in 1..(k - 1) : j <= Len(a) /\ a[j] = b[j]
        /\ (k > Len(a) \/ a[k] < b[k])

\* sorted() and list.sort() on names that differ only in the corpus file name
\* they hold.
RECURSIVE SortedNames(_)
SortedNames(S) ==
    IF S = {} THEN <<>>
    ELSE LET first == CHOOSE f \in S :
                          \A g \in S \ {f} :
                              StrLess(NameChars(f), NameChars(g))
         IN  <<first>> \o SortedNames(S \ {first})

\* href="([^"]+\.xml\.gz)": the anchor names an .xml.gz file.
IsXmlGz(href) == Len(href) >= 2 /\ href[Len(href)] = ".xml.gz"

\* ------------------------------------------- process_http_files: the selection
\* One file entry per anchor that names an .xml.gz file with a PMC range, in
\* page order.  The url is base_url + filename; the model names it by filename.
RECURSIVE ParseListing(_)
ParseListing(page) ==
    IF page = <<>> THEN <<>>
    ELSE LET href == Head(page)
         IN  IF IsXmlGz(href) /\ HasRange(href)
             THEN <<[filename |-> href, start_pmc |-> IntOf(RangeStartStr(href))]>>
                      \o ParseListing(Tail(page))
             ELSE ParseListing(Tail(page))

\* list.sort(key=start_pmc) is stable: an entry goes after every entry whose
\* key is not greater.
RECURSIVE InsertByStart(_, _)
InsertByStart(e, sorted) ==
    IF sorted = <<>> THEN <<e>>
    ELSE IF Head(sorted).start_pmc <= e.start_pmc
         THEN <<Head(sorted)>> \o InsertByStart(e, Tail(sorted))
         ELSE <<e>> \o sorted

RECURSIVE SortFrom(_, _)
SortFrom(entries, acc) ==
    IF entries = <<>> THEN acc
    ELSE SortFrom(Tail(entries), InsertByStart(Head(entries), acc))

\* A plausible slip: the entries keep the order of the page.
SortByStartUnsorted(entries) == entries

SortByStart(entries) == SortFrom(entries, <<>>)

\* The entries from the first index in hits on; all of them when hits is
\* empty (the loops over file_entries break at the first hit, and leave
\* file_urls as it was when there is none).
FromFirst(entries, hits) ==
    IF hits = {} THEN entries
    ELSE SubSeq(entries, CHOOSE i \in hits : \A j \in hits : i <= j, Len(entries))

\* "Find starting point": None and "" are both falsy and modelled as <<>>.
SkipTo(entries, marker) ==
    IF marker = <<>> THEN entries
    ELSE IF HasRange(marker)
         THEN LET s == IntOf(RangeStartStr(marker))
              IN  FromFirst(entries,
                      { i \in 1..Len(entries) : entries[i].start_pmc >= s })
         ELSE FromFirst(entries,
                  { i \in 1..Len(entries) : entries[i].filename = marker })

\* file_urls[:m] of Python: a negative m drops the last -m elements.
Slice(urls, m) ==
    IF m >= 0 THEN SubSeq(urls, 1, IF m < Len(urls) THEN m ELSE Len(urls))
    ELSE SubSeq(urls, 1, IF Len(urls) + m > 0 THEN Len(urls) + m ELSE 0)

\* "Limit number of files": max_files is <<>> for None and <<m>> for an int;
\* the test "if max_files:" is false for None and for 0.
Limit(urls, cap) ==
    IF cap = <<>> \/ cap[1] = 0 THEN urls ELSE Slice(urls, cap[1])

Filenames(entries) == [i \in 1..Len(entries) |-> entries[i].filename]

\* The list of files process_http_files goes on to download.
SelectFiles(page, marker, cap) ==
    Limit(Filenames(SkipTo(SortByStart(ParseListing(page)), marker)), cap)

\* --------------------------------------------------------------- environment
\* The corpus files the server holds, and the findings a complete scan of each
\* returns (findings are numbered; a file may hold none).
CorpusFiles == {F1a, F1b, F2, F10}

Corpus(f) ==
    CASE f = F1a -> <<1>> [] f = F1b -> <<>> [] f = F2 -> <<2, 3>> [] f = F10 -> <<4>>

\* The listing pages the server may answer with.
RECURSIVE Pages(_)
Pages(n) ==
    IF n = 0 THEN {<<>>}
    ELSE LET shorter == Pages(n - 1)
         IN  shorter \cup { Append(p, h) : p \in { q \in shorter : Len(q) = n - 1 }, h \in Hrefs }

\* "Determine start file based on last processed PMC ID": the marker string
\* built from PMC(\d+) in last_pmc_id (unreached, see WfCreateUploader; the
\* same string can be given to the http command).
WorkflowStartFrom(last) ==
    LET hits == { i \in 1..Len(last) :
                    i + 1 <= Len(last) /\ last[i] = "PMC" /\ last[i + 1] \in DigitStrs }
    IN  IF last = <<>> THEN <<>>
        ELSE IF hits = {} THEN last
        ELSE LET i == CHOOSE k \in hits : \A j \in hits : k <= j
             IN  <<"PMC", last[i + 1], "_", "PMC">>

\* The -s/--start-from values tried: none, a listed file name, a range beyond
\* every listed file, and the marker format that run_automated_workflow builds.
StartFromArgs ==
    {<<>>, F2, FileName("11", "19"), WorkflowStartFrom(<<"PMC", "2">>)}

\* The -m/--max-files values tried (argparse type=int takes any integer).
MaxFilesArgs == {<<>>, <<-1>>, <<0>>, <<1>>}

\* What the tracking file may hold when a run starts: nothing, or a marker.
TrackingFiles == {<<>>, <<"PMC", "2">>}

\* A file on disk: absent, or a CSV with the given rows.
NoFile == [exists |-> FALSE, rows |-> <<>>]

CsvFile(rows) == [exists |-> TRUE, rows |-> rows]

Prefixes(seq) == { SubSeq(seq, 1, n) : n \in 0..Len(seq) }

\* A to_csv call that raises leaves the old file, or a file cut short.
FailedWrites(old, rows) == {old} \cup { CsvFile(r) : r \in Prefixes(rows) \ {rows} }

VARIABLES
    pc,            \* where the process is
    command,       \* the subcommand main dispatched to
    page,          \* the listing page the server answers with (html)
    start_from,    \* process_http_files argument
    max_files,     \* process_http_files argument
    file_urls,     \* the files selected for the walk
    idx,           \* position of the for loop in file_urls
    attempt,       \* the variable attempt of the retry loop
    findings,      \* findings of the file in hand
    all_findings,  \* findings of the run so far
    raising,       \* an exception is propagating out of process_http_files
    tempDir,       \* the scratch directory exists
    scratch,       \* names of the files in the scratch directory
    batchOut,      \* the per-file outputs <output>.<filename>.csv
    cumOut,        \* the cumulative output
    tracking,      \* marker held by the tracking file (<<>>: none)
    last_pmc_id,   \* run_automated_workflow's local
    faults,        \* environment failures still to be injected
    attempted,     \* history: the files whose download was started, in order
    tries,         \* history: urlretrieve calls made for each of them
    slept,         \* history: time.sleep calls made for each of them
    scanLog,       \* history: what each scan returned, in order
    pieces,        \* _iter_articles: what the stream is made of
    chunk_size,    \* _iter_articles argument
    offset,        \* characters of the stream read so far
    eof,           \* the last read returned the empty string
    buffer,        \* the local buffer
    yielded,       \* history: the strings yielded, in order
    ipc,           \* where the generator is
    articles,      \* _process_xml_file: what each article's future will do
    batch_size,    \* the local batch_size
    taken,         \* articles drawn from article_iter so far
    pending,       \* futures of the batch in hand that are not collected yet
    broken,        \* a worker process died: the pool is not usable anymore
    file_findings, \* the local findings of _process_xml_file
    processed_count, \* the local processed_count
    ppc,           \* where _process_xml_file is
    lines,         \* the start markers on each line of the file
    article_count, \* the local article_count
    warning,       \* the mismatch warning logged after the pool drained
    call,          \* the text function under call
    article_xml,   \* process_article argument, as tokens
    text,          \* extract_synapse_ids_with_context argument, as characters
    deduplication, \* SynapseMiner.deduplication
    context_size,  \* SynapseMiner.context_size
    ret,           \* what the call returned
    apc,           \* where the call is
    tracking_file, \* ProcessingTracker: what the path of the tracking file holds
    parent_dir,    \* the state of the directory of the tracking file
    calls,         \* history: the calls made on trackers of the file, in order
    req_attempt,   \* _make_request: the variable attempt of its for loop
    req_log,       \* history: what each urlopen gave, and the sleeps, in order
    req_ret,       \* what _make_request returned or raised
    rpc,           \* where _make_request is
    batch_csv,     \* combine_results: the batch files the pattern matches
    combined_csv,  \* the file at output_path
    combine_ret,   \* what combine_results returned
    dir_files,     \* process_directory: all_files, with what each file gives
    parallel,      \* process_directory argument
    futures,       \* the state of the future of each file
    results,       \* the local results, then SynapseMiner.results
    summary,       \* what generate_summary returned
    mpc            \* where the old main is

walkVars ==
    <<pc, command, page, start_from, max_files, file_urls, idx, attempt, findings,
      all_findings, raising, tempDir, scratch, batchOut, cumOut, tracking,
      last_pmc_id, faults, attempted, tries, slept, scanLog>>

iterVars == <<pieces, chunk_size, offset, eof, buffer, yielded, ipc>>

poolVars ==
    <<articles, batch_size, taken, pending, broken, file_findings,
      processed_count, ppc, lines, article_count, warning>>

textVars == <<call, article_xml, text, deduplication, context_size, ret, apc>>

trackVars == <<tracking_file, parent_dir, calls>>

reqVars == <<req_attempt, req_log, req_ret, rpc>>

dataVars == <<batch_csv, combined_csv, combine_ret>>

minerVars == <<dir_files, parallel, futures, results, summary, mpc>>

vars ==
    <<walkVars, iterVars, poolVars, textVars, trackVars, reqVars, dataVars,
      minerVars>>

\* What each part of the program leaves alone.
offWalk ==
    <<iterVars, poolVars, textVars, trackVars, reqVars, dataVars,
      minerVars>>

offIter ==
    <<walkVars, poolVars, textVars, trackVars, reqVars, dataVars,
      minerVars>>

offPool ==
    <<walkVars, iterVars, textVars, trackVars, reqVars, dataVars,
      minerVars>>

offText ==
    <<walkVars, iterVars, poolVars, trackVars, reqVars, dataVars,
      minerVars>>

offTrack ==
    <<walkVars, iterVars, poolVars, textVars, reqVars, dataVars,
      minerVars>>

offReq ==
    <<walkVars, iterVars, poolVars, textVars, trackVars, dataVars,
      minerVars>>

\* The splitter is not running.
IterIdle ==
    /\ pieces = <<>>
    /\ chunk_size = 0
    /\ offset = 0
    /\ eof = FALSE
    /\ buffer = <<>>
    /\ yielded = <<>>
    /\ ipc = "idle"

PoolIdle ==
    /\ articles = <<>>
    /\ batch_size = 0
    /\ taken = 0
    /\ pending = {}
    /\ broken = FALSE
    /\ file_findings = <<>>
    /\ processed_count = 0
    /\ ppc = "idle"
    /\ lines = <<>>
    /\ article_count = 0
    /\ warning = "none"

\* Python's None, and the empty string: both are falsy and no value of the
\* model is both.
None == <<>>

\* The shape of what a text function hands back: raised tells whether it
\* raised instead of returning.
NoReturn == [raised |-> FALSE, pmc_id |-> None, findings |-> <<>>]

TextIdle ==
    /\ call = "none"
    /\ article_xml = <<>>
    /\ text = <<>>
    /\ deduplication = FALSE
    /\ context_size = 0
    /\ ret = NoReturn
    /\ apc = "idle"

\* What the path of the tracking file holds: kind tells whether there is a
\* file and what json.load makes of it, marker is the value of the key
\* 'last_processed_pmc_id' of a JSON object (None without the key), updated_at
offData ==
    <<walkVars, iterVars, poolVars, textVars, trackVars, reqVars, minerVars>>

offMiner ==
    <<walkVars, iterVars, poolVars, textVars, trackVars, reqVars, dataVars>>

\* tells whether the object has the key 'updated_at'.
FileState(kind) == [kind |-> kind, marker |-> None, updated_at |-> FALSE]

\* No tracker is in use.
TrackIdle ==
    /\ tracking_file = FileState("absent")
    /\ parent_dir = "exists"
    /\ calls = <<>>

\* No request is under way.
ReqIdle ==
    /\ req_attempt = 0
    /\ req_log = <<>>
    /\ req_ret = None
    /\ rpc = "idle"

\* combine_results is not under call.
DataIdle ==
    /\ batch_csv = {}
    /\ combined_csv = [exists |-> FALSE, rows |-> <<>>]
    /\ combine_ret = "idle"

\* What generate_summary has not returned yet.
NoSummary ==
    [total_documents_processed |-> 0, total_synapse_id_mentions |-> 0,
     unique_synapse_ids |-> 0, top_mentioned_ids |-> <<>>]

\* The old main is not running.
MinerIdle ==
    /\ dir_files = <<>>
    /\ parallel = FALSE
    /\ futures = <<>>
    /\ results = <<>>
    /\ summary = NoSummary
    /\ mpc = "idle"

\* ------------------------------------------------------------ main, workflow
Init ==
    /\ pc = "main"
    /\ command = "none"
    /\ page \in Pages(MaxListing)
    /\ start_from = <<>>
    /\ max_files = <<>>
    /\ file_urls = <<>>
    /\ idx = 0
    /\ attempt = 0
    /\ findings = <<>>
    /\ all_findings = <<>>
    /\ raising = FALSE
    /\ tempDir = FALSE
    /\ scratch = {}
    /\ batchOut = [f \in CorpusFiles |-> NoFile]
    /\ cumOut = NoFile
    /\ tracking = <<>>
    /\ last_pmc_id = <<>>
    /\ faults = MaxFaults
    /\ attempted = <<>>
    /\ tries = 0
    /\ slept = 0
    /\ scanLog = <<>>
    /\ IterIdle
    /\ PoolIdle
    /\ TextIdle
    /\ TrackIdle
    /\ ReqIdle
    /\ DataIdle
    /\ MinerIdle

\* main, command "http": process_http_files(url, output, start_from, max_files).
MainHttp ==
    /\ pc = "main"
    /\ \E sf \in StartFromArgs, mf \in MaxFilesArgs :
          /\ start_from' = sf
          /\ max_files' = mf
    /\ command' = "http"
    /\ pc' = "mkdtemp"
    /\ UNCHANGED <<page, file_urls, idx, attempt, findings, all_findings, raising,
                   tempDir, scratch, batchOut, cumOut, tracking, last_pmc_id,
                   faults, attempted, tries, slept, scanLog>>
    /\ UNCHANGED offWalk

\* main, command "process": a file that does not exist is logged and ends the
\* process with sys.exit(1), which "except Exception" does not catch.
MainProcess ==
    /\ pc = "main"
    /\ command' = "process"
    /\ \E exists \in BOOLEAN : pc' = IF exists THEN "process_file" ELSE "exit1"
    /\ UNCHANGED <<page, start_from, max_files, file_urls, idx, attempt, findings,
                   all_findings, raising, tempDir, scratch, batchOut, cumOut,
                   tracking, last_pmc_id, faults, attempted, tries, slept, scanLog>>
    /\ UNCHANGED offWalk

\* findings = miner.process_file(str(args.file)): the scan of the file, which
\* may be cut short; then, when there are findings, pd.DataFrame(findings)
\* .to_csv(args.output), whose failure leaves main through its handler.
ProcessFile ==
    /\ pc = "process_file"
    /\ \E f \in CorpusFiles :
         \E result \in Prefixes(Corpus(f)), saved \in BOOLEAN :
            /\ findings' = result
            /\ IF result = <<>>
               THEN /\ cumOut' = cumOut
                    /\ pc' = "returned"
               ELSE IF saved
               THEN /\ cumOut' = CsvFile(result)
                    /\ pc' = "returned"
               ELSE /\ cumOut' \in FailedWrites(cumOut, result)
                    /\ pc' = "raised"
    /\ UNCHANGED <<command, page, start_from, max_files, file_urls, idx, attempt,
                   all_findings, raising, tempDir, scratch, batchOut, tracking,
                   last_pmc_id, faults, attempted, tries, slept, scanLog>>
    /\ UNCHANGED offWalk

\* main, command "workflow": run_automated_workflow(args, logger).
MainWorkflow ==
    /\ pc = "main"
    /\ \E mf \in MaxFilesArgs : max_files' = mf
    /\ command' = "workflow"
    /\ pc' = "wf_get_last"
    /\ UNCHANGED <<page, start_from, file_urls, idx, attempt, findings,
                   all_findings, raising, tempDir, scratch, batchOut, cumOut,
                   tracking, last_pmc_id, faults, attempted, tries, slept, scanLog>>
    /\ UNCHANGED offWalk

\* tracker.get_last_processed_pmc_id(): the marker the tracking file holds
\* when it is read, or None.  No other command reads the file, so what it
\* holds is settled here.
WfGetLast ==
    /\ pc = "wf_get_last"
    /\ \E stored \in TrackingFiles :
          /\ tracking' = stored
          /\ last_pmc_id' = stored
    /\ pc' = "wf_uploader"
    /\ UNCHANGED <<command, page, start_from, max_files, file_urls, idx, attempt,
                   findings, all_findings, raising, tempDir, scratch, batchOut,
                   cumOut, faults, attempted, tries, slept, scanLog>>
    /\ UNCHANGED offWalk

\* The keyword parameters of SynapseUploader.__init__.
UploaderParams == {"username", "api_key"}

\* SynapseUploader(pat=...): __init__ has no parameter pat, the call raises
\* TypeError, the handler of run_automated_workflow logs it and calls
\* sys.exit(1).  Nothing after this call is ever run.
WfCreateUploader ==
    /\ pc = "wf_uploader"
    /\ pc' = IF "pat" \in UploaderParams THEN "wf_start_from" ELSE "exit1"
    /\ UNCHANGED <<command, page, start_from, max_files, file_urls, idx, attempt,
                   findings, all_findings, raising, tempDir, scratch, batchOut,
                   cumOut, tracking, last_pmc_id, faults, attempted, tries, slept,
                   scanLog>>
    /\ UNCHANGED offWalk

\* main: a return ends the process with status 0, an exception with sys.exit(1).
MainExit ==
    /\ pc \in {"returned", "raised"}
    /\ pc' = IF pc = "raised" THEN "exit1" ELSE "exit0"
    /\ UNCHANGED <<command, page, start_from, max_files, file_urls, idx, attempt,
                   findings, all_findings, raising, tempDir, scratch, batchOut,
                   cumOut, tracking, last_pmc_id, faults, attempted, tries, slept,
                   scanLog>>
    /\ UNCHANGED offWalk

\* ------------------------------------------------- process_http_files: the walk
\* max_retries, of the download loop and of _make_request.
MaxRetries == 3

\* The file the for loop holds.
File == file_urls[idx]

\* The for loop takes its next element, or ends ("continue", or the end of the
\* loop body).  The locals of the body are dead here and are reset.
Continue ==
    /\ idx' = idx + 1
    /\ attempt' = 0
    /\ findings' = <<>>
    /\ pc' = IF idx + 1 > Len(file_urls) THEN "final_save" ELSE "download"

\* A plausible slip: an error in the loop body is not caught there and leaves
\* the function through the finally clause.
Propagate ==
    /\ raising' = TRUE
    /\ pc' = "finally"
    /\ UNCHANGED <<idx, attempt, findings>>

\* "except Exception as e: logger.error(...); continue" around the loop body.
LogAndContinue ==
    /\ Continue
    /\ UNCHANGED raising

\* temp_dir = tempfile.mkdtemp()
Mkdtemp ==
    /\ pc = "mkdtemp"
    /\ tempDir' = TRUE
    /\ pc' = "listing"
    /\ UNCHANGED <<command, page, start_from, max_files, file_urls, idx, attempt,
                   findings, all_findings, raising, scratch, batchOut, cumOut,
                   tracking, last_pmc_id, faults, attempted, tries, slept, scanLog>>
    /\ UNCHANGED offWalk

\* html = self._make_request(base_url), then the entries are parsed, sorted,
\* skipped to the starting point and limited.
FetchListing ==
    /\ pc = "listing"
    /\ file_urls' = SelectFiles(page, start_from, max_files)
    /\ idx' = 1
    /\ pc' = IF file_urls' = <<>> THEN "final_save" ELSE "download"
    /\ UNCHANGED <<command, page, start_from, max_files, attempt, findings, all_findings,
                   raising, tempDir, scratch, batchOut, cumOut, tracking,
                   last_pmc_id, faults, attempted, tries, slept, scanLog>>
    /\ UNCHANGED offWalk

\* _make_request raises (after its retries): the error leaves the function
\* through the finally clause.
FetchListingFails ==
    /\ pc = "listing"
    /\ faults > 0
    /\ faults' = faults - 1
    /\ raising' = TRUE
    /\ pc' = "finally"
    /\ UNCHANGED <<command, page, start_from, max_files, file_urls, idx, attempt,
                   findings, all_findings, tempDir, scratch, batchOut, cumOut,
                   tracking, last_pmc_id, attempted, tries, slept, scanLog>>
    /\ UNCHANGED offWalk

\* One more call of urlretrieve for the file in hand, in the histories.
CountTry ==
    IF Len(attempted) < idx
    THEN /\ attempted' = Append(attempted, File)
         /\ tries' = 1
         /\ slept' = 0
    ELSE /\ attempted' = attempted
         /\ tries' = tries + 1
         /\ slept' = slept

\* urllib.request.urlretrieve(file_url, local_path) returns: break.
DownloadOk ==
    /\ pc = "download"
    /\ CountTry
    /\ scratch' = scratch \cup {File}
    /\ pc' = "scan"
    /\ UNCHANGED <<command, page, start_from, max_files, file_urls, idx, attempt,
                   findings, all_findings, raising, tempDir, batchOut, cumOut,
                   tracking, last_pmc_id, faults, scanLog>>
    /\ UNCHANGED offWalk

\* A plausible slip: the last attempt is retried too.
RetryAllowedAlways == TRUE

\* "if attempt < max_retries - 1": the failed attempt is followed by a retry.
RetryAllowed == attempt < MaxRetries - 1

\* urlretrieve raises (HTTPError and any other Exception are handled alike);
\* what it had written of local_path stays.  A failure that is not the last
\* sleeps and retries; the last one is re-raised to the handler of the loop
\* body, which logs it and continues with the next file.
DownloadFails ==
    /\ pc = "download"
    /\ UNCHANGED faults
    /\ CountTry
    /\ \E partial \in BOOLEAN :
          scratch' = IF partial THEN scratch \cup {File} ELSE scratch
    /\ IF RetryAllowed
       THEN /\ pc' = "sleep"
            /\ UNCHANGED <<idx, attempt, findings, raising>>
       ELSE LogAndContinue
    /\ UNCHANGED <<command, page, start_from, max_files, file_urls, all_findings,
                   tempDir, batchOut, cumOut, tracking, last_pmc_id,
                   scanLog>>
    /\ UNCHANGED offWalk

\* time.sleep(retry_delay); continue
Sleep ==
    /\ pc = "sleep"
    /\ slept' = slept + 1
    /\ attempt' = attempt + 1
    /\ pc' = "download"
    /\ UNCHANGED <<command, page, start_from, max_files, file_urls, idx, findings,
                   all_findings, raising, tempDir, scratch, batchOut, cumOut,
                   tracking, last_pmc_id, faults, attempted, tries, scanLog>>
    /\ UNCHANGED offWalk

\* findings = self._process_xml_file(local_path, ...); all_findings.extend(findings)
\* The scan never raises: an error inside it is logged and it returns what it
\* had found (a failure when the file is opened leaves nothing found).
Scanned(result) ==
    /\ findings' = result
    /\ all_findings' = all_findings \o result
    /\ scanLog' = Append(scanLog, [file |-> File, found |-> result])
    /\ pc' = IF result # <<>> THEN "write_batch" ELSE "remove"
    /\ UNCHANGED <<command, page, start_from, max_files, file_urls, idx, attempt,
                   raising, tempDir, scratch, batchOut, cumOut, tracking,
                   last_pmc_id, attempted, tries, slept>>
    /\ UNCHANGED offWalk

ScanOk ==
    /\ pc = "scan"
    /\ Scanned(Corpus(File))
    /\ UNCHANGED faults
    /\ UNCHANGED offWalk

ScanCutShort ==
    /\ pc = "scan"
    /\ faults > 0
    /\ faults' = faults - 1
    /\ \E part \in Prefixes(Corpus(File)) \ {Corpus(File)} : Scanned(part)
    /\ UNCHANGED offWalk

\* A plausible slip: the cumulative output gets the findings of the last file.
CumulativeRowsLastOnly == findings

\* The rows of the cumulative output: pd.DataFrame(all_findings)
CumulativeRows == all_findings

\* df = pd.DataFrame(findings); df.to_csv(batch_output_path, index=False)
WriteBatchOk ==
    /\ pc = "write_batch"
    /\ batchOut' = [batchOut EXCEPT ![File] = CsvFile(findings)]
    /\ pc' = "write_cum"
    /\ UNCHANGED <<command, page, start_from, max_files, file_urls, idx, attempt,
                   findings, all_findings, raising, tempDir, scratch, cumOut,
                   tracking, last_pmc_id, faults, attempted, tries, slept, scanLog>>
    /\ UNCHANGED offWalk

\* to_csv raises: the handler of the loop body logs it and continues.
WriteBatchFails ==
    /\ pc = "write_batch"
    /\ faults > 0
    /\ faults' = faults - 1
    /\ \E w \in FailedWrites(batchOut[File], findings) :
          batchOut' = [batchOut EXCEPT ![File] = w]
    /\ LogAndContinue
    /\ UNCHANGED <<command, page, start_from, max_files, file_urls, all_findings,
                   tempDir, scratch, cumOut, tracking, last_pmc_id,
                   attempted, tries, slept, scanLog>>
    /\ UNCHANGED offWalk

\* "Also update the main results file"
WriteCumOk ==
    /\ pc = "write_cum"
    /\ cumOut' = CsvFile(CumulativeRows)
    /\ pc' = "remove"
    /\ UNCHANGED <<command, page, start_from, max_files, file_urls, idx, attempt,
                   findings, all_findings, raising, tempDir, scratch, batchOut,
                   tracking, last_pmc_id, faults, attempted, tries, slept, scanLog>>
    /\ UNCHANGED offWalk

WriteCumFails ==
    /\ pc = "write_cum"
    /\ faults > 0
    /\ faults' = faults - 1
    /\ cumOut' \in FailedWrites(cumOut, CumulativeRows)
    /\ LogAndContinue
    /\ UNCHANGED <<command, page, start_from, max_files, file_urls, all_findings,
                   tempDir, scratch, batchOut, tracking, last_pmc_id,
                   attempted, tries, slept, scanLog>>
    /\ UNCHANGED offWalk

\* os.remove(local_path), then the loop body ends.
RemoveOk ==
    /\ pc = "remove"
    /\ scratch' = scratch \ {File}
    /\ Continue
    /\ UNCHANGED <<command, page, start_from, max_files, file_urls, all_findings,
                   raising, tempDir, batchOut, cumOut, tracking, last_pmc_id,
                   faults, attempted, tries, slept, scanLog>>
    /\ UNCHANGED offWalk

\* os.remove raises: logged by the handler of the loop body, the file stays.
RemoveFails ==
    /\ pc = "remove"
    /\ faults > 0
    /\ faults' = faults - 1
    /\ LogAndContinue
    /\ UNCHANGED <<command, page, start_from, max_files, file_urls, all_findings,
                   tempDir, scratch, batchOut, cumOut, tracking,
                   last_pmc_id, attempted, tries, slept, scanLog>>
    /\ UNCHANGED offWalk

\* "Final save of all results", when there are any.
FinalSaveOk ==
    /\ pc = "final_save"
    /\ cumOut' = IF all_findings # <<>> THEN CsvFile(CumulativeRows) ELSE cumOut
    /\ pc' = "finally"
    /\ UNCHANGED <<command, page, start_from, max_files, file_urls, idx, attempt,
                   findings, all_findings, raising, tempDir, scratch, batchOut,
                   tracking, last_pmc_id, faults, attempted, tries, slept, scanLog>>
    /\ UNCHANGED offWalk

\* The final to_csv raises: the error leaves through the finally clause.
FinalSaveFails ==
    /\ pc = "final_save"
    /\ all_findings # <<>>
    /\ faults > 0
    /\ faults' = faults - 1
    /\ cumOut' \in FailedWrites(cumOut, CumulativeRows)
    /\ raising' = TRUE
    /\ pc' = "finally"
    /\ UNCHANGED <<command, page, start_from, max_files, file_urls, idx, attempt,
                   findings, all_findings, tempDir, scratch, batchOut, tracking,
                   last_pmc_id, attempted, tries, slept, scanLog>>
    /\ UNCHANGED offWalk

\* A plausible slip: the clean-up is done on the normal path only.
RemovedByCleanupOnReturn == ~raising

\* finally: shutil.rmtree(temp_dir) runs however the try block was left.
RemovedByCleanup == TRUE

Cleanup ==
    /\ pc = "finally"
    /\ tempDir' = IF RemovedByCleanup THEN FALSE ELSE tempDir
    /\ scratch' = IF RemovedByCleanup THEN {} ELSE scratch
    /\ pc' = IF raising THEN "raised" ELSE "returned"
    /\ UNCHANGED <<command, page, start_from, max_files, file_urls, idx, attempt,
                   findings, all_findings, raising, batchOut, cumOut, tracking,
                   last_pmc_id, faults, attempted, tries, slept, scanLog>>
    /\ UNCHANGED offWalk

Next ==
    \/ MainHttp
    \/ MainProcess
    \/ ProcessFile
    \/ MainWorkflow
    \/ WfGetLast
    \/ WfCreateUploader
    \/ Mkdtemp
    \/ FetchListing
    \/ FetchListingFails
    \/ DownloadOk
    \/ DownloadFails
    \/ Sleep
    \/ ScanOk
    \/ ScanCutShort
    \/ WriteBatchOk
    \/ WriteBatchFails
    \/ WriteCumOk
    \/ WriteCumFails
    \/ RemoveOk
    \/ RemoveFails
    \/ FinalSaveOk
    \/ FinalSaveFails
    \/ Cleanup
    \/ MainExit

Spec == Init /\ [][Next]_vars

\* ------------------------------------------------------------ _iter_articles
\* The literal markers, one character per element.
StartMarker == <<"<", "a", "r", "t", "i", "c", "l", "e", " ">>

EndMarker == <<"<", "/", "a", "r", "t", "i", "c", "l", "e", ">">>

\* chunk_size: int = 10 * 1024 * 1024
DefaultChunk == 10 * 1024 * 1024

\* A stream is made of pieces: "S" a start marker, "E" an end marker, "T" one
\* character of other text.
PieceKinds == {"S", "E", "T"}

PieceText(k) == CASE k = "S" -> StartMarker [] k = "E" -> EndMarker [] k = "T" -> <<">">>

RECURSIVE PieceSeqs(_)
PieceSeqs(n) ==
    IF n = 0 THEN {<<>>}
    ELSE LET shorter == PieceSeqs(n - 1)
         IN  shorter \cup
             { Append(p, k) : p \in { q \in shorter : Len(q) = n - 1 }, k \in PieceKinds }

RECURSIVE TextOf(_)
TextOf(ps) == IF ps = <<>> THEN <<>> ELSE PieceText(Head(ps)) \o TextOf(Tail(ps))

\* The characters of the file being read.
Stream == TextOf(pieces)

ChunkSizes == (1..MaxChunk) \cup {DefaultChunk}

\* s[a:b] of Python for 0 <= a, 0 <= b.
PySlice(str, a, b) ==
    LET hi == IF b < Len(str) THEN b ELSE Len(str)
    IN  IF a >= hi THEN <<>> ELSE SubSeq(str, a + 1, hi)

\* str.find(pat, from): the least 0-based index >= from where pat occurs, or -1.
Find(str, pat, from) ==
    LET hits == { i \in from..(Len(str) - Len(pat)) :
                    \A k \in 1..Len(pat) : str[i + k] = pat[k] }
    IN  IF hits = {} THEN -1 ELSE CHOOSE i \in hits : \A j \in hits : i <= j

\* "pat in str"
Contains(str, pat) == Find(str, pat, 0) # -1

\* A plausible slip: the length of the closing tag is not added.
EndOfFragmentNoTag(buf, start) == Find(buf, EndMarker, start)

\* end = buffer.find('</article>', start) + len('</article>')
EndOfFragment(buf, start) == Find(buf, EndMarker, start) + Len(EndMarker)

\* A plausible slip: the loop reads on after an empty read.
BreakAtEofNever == FALSE

\* "if not chunk:  # End of file": eof records that the last read was empty.
BreakAtEof == eof

\* chunk = f.read(chunk_size); "if not chunk and not buffer: break";
\* buffer += chunk
IterRead ==
    /\ ipc = "read"
    /\ LET chunk == PySlice(Stream, offset, offset + chunk_size)
       IN  /\ offset' = offset + Len(chunk)
           /\ eof' = (chunk = <<>>)
           /\ buffer' = buffer \o chunk
           /\ ipc' = IF chunk = <<>> /\ buffer = <<>> THEN "done" ELSE "split"
    /\ UNCHANGED <<pieces, chunk_size, yielded>>
    /\ UNCHANGED offIter

\* One turn of "while '<article ' in buffer and '</article>' in buffer":
\* yield buffer[start:end]; buffer = buffer[end:]
IterYield ==
    /\ ipc = "split"
    /\ Contains(buffer, StartMarker)
    /\ Contains(buffer, EndMarker)
    /\ LET start == Find(buffer, StartMarker, 0)
           end == EndOfFragment(buffer, start)
       IN  IF start = -1 \/ end = -1
           THEN /\ ipc' = IF BreakAtEof THEN "done" ELSE "read"
                /\ UNCHANGED <<yielded, buffer>>
           ELSE /\ yielded' = Append(yielded, PySlice(buffer, start, end))
                /\ buffer' = PySlice(buffer, end, Len(buffer))
                /\ ipc' = "split"
    /\ UNCHANGED <<pieces, chunk_size, offset, eof>>
    /\ UNCHANGED offIter

\* The while condition is false: "if not chunk: break", else read on.
IterWhileEnds ==
    /\ ipc = "split"
    /\ ~(Contains(buffer, StartMarker) /\ Contains(buffer, EndMarker))
    /\ ipc' = IF BreakAtEof THEN "done" ELSE "read"
    /\ UNCHANGED <<pieces, chunk_size, offset, eof, buffer, yielded>>
    /\ UNCHANGED offIter

\* The walker is not running.
WalkIdle ==
    /\ pc = "main"
    /\ command = "none"
    /\ page = <<>>
    /\ start_from = <<>>
    /\ max_files = <<>>
    /\ file_urls = <<>>
    /\ idx = 0
    /\ attempt = 0
    /\ findings = <<>>
    /\ all_findings = <<>>
    /\ raising = FALSE
    /\ tempDir = FALSE
    /\ scratch = {}
    /\ batchOut = [f \in CorpusFiles |-> NoFile]
    /\ cumOut = NoFile
    /\ tracking = <<>>
    /\ last_pmc_id = <<>>
    /\ faults = 0
    /\ attempted = <<>>
    /\ tries = 0
    /\ slept = 0
    /\ scanLog = <<>>

\* _iter_articles is called on a stream.
InitIter ==
    /\ WalkIdle
    /\ PoolIdle
    /\ TextIdle
    /\ TrackIdle
    /\ ReqIdle
    /\ DataIdle
    /\ MinerIdle
    /\ pieces \in PieceSeqs(MaxPieces)
    /\ chunk_size \in ChunkSizes
    /\ offset = 0
    /\ eof = FALSE
    /\ buffer = <<>>
    /\ yielded = <<>>
    /\ ipc = "read"

NextIter ==
    \/ IterRead
    \/ IterYield
    \/ IterWhileEnds

SpecIter == InitIter /\ [][NextIter]_vars

\* The consumer (list(islice(article_iter, batch_size)) in a loop that ends on
\* an empty batch) keeps asking for the next article until the generator
\* returns, so the generator always takes its next step.
SpecIterFair == SpecIter /\ WF_vars(NextIter)

\* --------------------------------------------------------- _process_xml_file
\* What the worker does with an article: "none", "one", "two" return that
\* many findings (process_article returned); "raise" ships an exception back,
\* which future.result() raises; "crash" ends the worker process (killed for
\* memory, a fault in the parser), which breaks the pool.
ArticleKinds == {"none", "one", "two", "raise", "crash"}

RECURSIVE ArticleSeqs(_)
ArticleSeqs(n) ==
    IF n = 0 THEN {<<>>}
    ELSE LET shorter == ArticleSeqs(n - 1)
         IN  shorter \cup
             { Append(a, k) : a \in { b \in shorter : Len(b) = n - 1 },
                              k \in ArticleKinds }

\* The findings process_article returns for the i-th article of the file, in
\* the order of their matches in the article.
ArticleFindings(i) ==
    CASE articles[i] = "one" -> <<[article |-> i, match |-> 1]>>
      [] articles[i] = "two" -> <<[article |-> i, match |-> 1],
                                  [article |-> i, match |-> 2]>>
      [] OTHER -> <<>>

\* The start markers on the first k lines.
RECURSIVE StartMarkers(_, _)
StartMarkers(ls, k) == IF k = 0 THEN 0 ELSE ls[k] + StartMarkers(ls, k - 1)

\* The ways a file of n articles is laid out over at most MaxLines lines:
\* the number of start markers on each line.
Layouts(n) ==
    { ls \in UNION { [1..k -> 0..n] : k \in 0..MaxLines } :
        StartMarkers(ls, Len(ls)) = n }

\* batch_size = 100; the small size makes a file of few articles span
\* several batches.
BatchSizes == {MaxBatch, 100}

\* A plausible slip: the list is assigned, not extended.
ExtendOverwrites(list, more) == more

\* findings.extend(article_findings)
Extend(list, more) == list \o more

\* A plausible slip: an error of the file leaves _process_xml_file.
OnFileErrorRaises == "raised"

\* "except Exception as e: logger.error(...)" around the whole function, then
\* "return findings".
OnFileError == "caught"

\* article_count = sum(1 for line in f if '<article ' in line): the lines
\* that hold at least one start marker.
CountArticles(ls) == Cardinality({ i \in 1..Len(ls) : ls[i] > 0 })

\* The pre-pass: the file is opened and its lines are counted; a file that
\* cannot be opened, decompressed or decoded leaves for the handler.
PoolCount ==
    /\ ppc = "count"
    /\ \E opened \in BOOLEAN :
         IF opened
         THEN /\ article_count' = CountArticles(lines)
              /\ ppc' = "batch"
         ELSE /\ article_count' = article_count
              /\ ppc' = OnFileError
    /\ UNCHANGED <<articles, batch_size, taken, pending, broken, file_findings,
                   processed_count, lines, warning>>
    /\ UNCHANGED offPool

\* batch = list(islice(article_iter, batch_size)); "if not batch: break";
\* futures = [executor.submit(...) for article in batch].  On a broken pool
\* submit raises BrokenProcessPool, which leaves the loop for the handler
\* "except Exception" of the function: it logs and the findings collected so
\* far are returned.
\* An empty batch ends the loop and the pool: the processed count is checked
\* against article_count and a mismatch is logged.  A read of the file that
\* fails inside islice leaves for the same handler.
PoolTakeBatch ==
    /\ ppc = "batch"
    /\ \E readFails \in BOOLEAN :
         LET hi == IF taken + batch_size < Len(articles)
                   THEN taken + batch_size ELSE Len(articles)
         IN  IF readFails
             THEN /\ hi > taken
                  /\ ppc' = OnFileError
                  /\ UNCHANGED <<taken, pending, warning>>
             ELSE /\ taken' = hi
                  /\ pending' = IF broken THEN {} ELSE (taken + 1)..hi
                  /\ ppc' = IF hi = taken THEN "done"
                            ELSE IF broken THEN OnFileError
                            ELSE "collect"
                  /\ warning' = IF hi > taken THEN warning
                                ELSE IF processed_count < article_count THEN "fewer"
                                ELSE IF processed_count > article_count THEN "more"
                                ELSE "none"
    /\ UNCHANGED <<articles, batch_size, broken, file_findings, processed_count,
                   lines, article_count>>
    /\ UNCHANGED offPool

\* The worker that runs one of the pending articles dies.  Every future that
\* has not completed is given BrokenProcessPool.
PoolWorkerDies ==
    /\ ppc = "collect"
    /\ ~broken
    /\ \E i \in pending : articles[i] = "crash"
    /\ broken' = TRUE
    /\ UNCHANGED <<articles, batch_size, taken, pending, file_findings,
                   processed_count, ppc, lines, article_count, warning>>
    /\ UNCHANGED offPool

\* as_completed hands over a future that returned: any one of those pending.
PoolFutureReturns ==
    /\ ppc = "collect"
    /\ ~broken
    /\ \E i \in pending :
          /\ articles[i] \notin {"raise", "crash"}
          /\ file_findings' = Extend(file_findings, ArticleFindings(i))
          /\ pending' = pending \ {i}
    /\ processed_count' = processed_count + 1
    /\ UNCHANGED <<articles, batch_size, taken, broken, ppc, lines, article_count,
                   warning>>
    /\ UNCHANGED offPool

\* as_completed hands over a future whose result() raises: "except Exception
\* as e" inside the loop logs, counts the article and goes on.
PoolFutureRaises ==
    /\ ppc = "collect"
    /\ \E i \in pending :
          /\ articles[i] = "raise" \/ broken
          /\ pending' = pending \ {i}
    /\ processed_count' = processed_count + 1
    /\ UNCHANGED <<articles, batch_size, taken, broken, file_findings, ppc, lines,
                   article_count, warning>>
    /\ UNCHANGED offPool

\* Every future of the batch has been collected: next batch.
PoolBatchCollected ==
    /\ ppc = "collect"
    /\ pending = {}
    /\ ppc' = "batch"
    /\ UNCHANGED <<articles, batch_size, taken, pending, broken, file_findings,
                   processed_count, lines, article_count, warning>>
    /\ UNCHANGED offPool

\* _process_xml_file is called on a file whose splitter yields Len(articles)
\* fragments: a file of that many articles, each with one start marker, laid
\* out over lines in any way (a line holds the start of none, one or several).
InitPool ==
    /\ WalkIdle
    /\ IterIdle
    /\ TextIdle
    /\ TrackIdle
    /\ ReqIdle
    /\ DataIdle
    /\ MinerIdle
    /\ articles \in ArticleSeqs(MaxArticles)
    /\ batch_size \in BatchSizes
    /\ taken = 0
    /\ pending = {}
    /\ broken = FALSE
    /\ file_findings = <<>>
    /\ processed_count = 0
    /\ ppc = "count"
    /\ lines \in Layouts(Len(articles))
    /\ article_count = 0
    /\ warning = "none"

NextPool ==
    \/ PoolCount
    \/ PoolTakeBatch
    \/ PoolWorkerDies
    \/ PoolFutureReturns
    \/ PoolFutureRaises
    \/ PoolBatchCollected

SpecPool == InitPool /\ [][NextPool]_vars

\* ------------------------------------------------ the identifier matchers
\* Article text is a string of characters, built from pieces: the words
\* "syn", " SYN" (after a space), "xyn", a run of six digits, a run of seven digits, one
\* non-ASCII decimal digit (ARABIC-INDIC DIGIT ONE) and a space.
AsciiDigits == {"0", "1", "2", "3", "4", "5", "6", "7", "8", "9"}

OtherDigits == {"U+0661"}

\* \d of a str pattern: every Unicode decimal digit.
IsDigit(c) == c \in AsciiDigits \cup OtherDigits

\* The pieces the texts of the model are made of; "id2" is a second whole
\* identifier after a space.
TextKinds == {"syn", "SYN", "xyn", "d6", "d7", "u1", " ", "id2"}

KindChars(k) ==
    CASE k = "syn" -> <<"s", "y", "n">>
      [] k = "SYN" -> <<" ", "S", "Y", "N">>
      [] k = "xyn" -> <<"x", "y", "n">>
      [] k = "d6" -> <<"1", "2", "3", "4", "5", "6">>
      [] k = "d7" -> <<"1", "2", "3", "4", "5", "6", "7">>
      [] k = "u1" -> <<"U+0661">>
      [] k = " " -> <<" ">>
      [] k = "id2" -> <<" ", "s", "y", "n", "7", "6", "5", "4", "3", "2", "1">>

RECURSIVE TextSeqs(_)
TextSeqs(n) ==
    IF n = 0 THEN {<<>>}
    ELSE LET shorter == TextSeqs(n - 1)
         IN  shorter \cup
             { Append(t, k) : t \in { u \in shorter : Len(u) = n - 1 },
                              k \in TextKinds }

RECURSIVE CharsOf(_)
CharsOf(ks) == IF ks = <<>> THEN <<>> ELSE KindChars(Head(ks)) \o CharsOf(Tail(ks))

\* str.lower(), on the letters of the model.
LowerChar(c) ==
    CASE c = "S" -> "s" [] c = "Y" -> "y" [] c = "N" -> "n"
      [] c = "P" -> "p" [] c = "M" -> "m" [] c = "C" -> "c"
      [] OTHER -> c

Lower(str) == [i \in 1..Len(str) |-> LowerChar(str[i])]

\* str.startswith(pat)
StartsWith(str, pat) == Len(str) >= Len(pat) /\ SubSeq(str, 1, Len(pat)) = pat

\* str.strip(): the whitespace of the model is the space.
Strip(str) ==
    LET inked == { i \in 1..Len(str) : str[i] # " " }
    IN  IF inked = {} THEN <<>>
        ELSE SubSeq(str, CHOOSE i \in inked : \A j \in inked : i <= j,
                         CHOOSE i \in inked : \A j \in inked : j <= i)

\* re.sub(r'\s+', ' ', text)
RECURSIVE CollapseSpaces(_)
CollapseSpaces(str) ==
    IF Len(str) < 2 THEN str
    ELSE IF str[1] = " " /\ str[2] = " " THEN CollapseSpaces(Tail(str))
         ELSE <<str[1]>> \o CollapseSpaces(Tail(str))

\* The number of \d characters in a row from the 1-based position i on.
DigitRun(str, i) ==
    LET stops == { j \in i..(Len(str) + 1) : j = Len(str) + 1 \/ ~IsDigit(str[j]) }
    IN  (CHOOSE j \in stops : \A k \in stops : j <= k) - i

\* 'syn' under re.IGNORECASE at position i.
SynAt(str, i) ==
    /\ i + 2 <= Len(str)
    /\ LowerChar(str[i]) = "s"
    /\ LowerChar(str[i + 1]) = "y"
    /\ LowerChar(str[i + 2]) = "n"

\* The length of the match of r'syn\d{7,12}' at position i (greedy), 0 when
\* it does not match there.
PlainMatchLen(str, i) ==
    IF SynAt(str, i) /\ DigitRun(str, i + 3) >= 7
    THEN 3 + (IF DigitRun(str, i + 3) > 12 THEN 12 ELSE DigitRun(str, i + 3))
    ELSE 0

\* The length of the match of r'(?<!\d)syn\d{7,12}(?!\d)' at position i: no
\* number of digits from 7 to 12 is followed by a non-digit when the run is
\* longer than 12.
GuardedMatchLen(str, i) ==
    IF /\ SynAt(str, i)
       /\ (i = 1 \/ ~IsDigit(str[i - 1]))
       /\ DigitRun(str, i + 3) \in 7..12
    THEN 3 + DigitRun(str, i + 3)
    ELSE 0

MatchLen(str, i, guarded) ==
    IF guarded THEN GuardedMatchLen(str, i) ELSE PlainMatchLen(str, i)

\* pattern.finditer(text): the matches from left to right, none overlapping,
\* as [start, end] in Python's 0-based offsets.
RECURSIVE FindIter(_, _, _)
FindIter(str, from, guarded) ==
    LET hits == { i \in from..Len(str) : MatchLen(str, i, guarded) > 0 }
    IN  IF hits = {} THEN <<>>
        ELSE LET i == CHOOSE h \in hits : \A j \in hits : h <= j
                 n == MatchLen(str, i, guarded)
             IN  <<[start |-> i - 1, end |-> i - 1 + n]>>
                     \o FindIter(str, i + n, guarded)

\* --------------------------------------------------------- process_article
\* An article fragment is a string of tokens: a tag is one token, text is
\* one token per character.
IdTypes == {"pmc", "pmcid", "doi"}

OpenIdTag(type) ==
    CASE type = "pmc" -> "<article-id pub-id-type='pmc'>"
      [] type = "pmcid" -> "<article-id pub-id-type='pmcid'>"
      [] type = "doi" -> "<article-id pub-id-type='doi'>"

OpenTags == {"<article>", "<front>", "<body>"} \cup { OpenIdTag(t) : t \in IdTypes }

CloseTags == {"</article>", "</front>", "</body>", "</article-id>"}

TagName(tag) ==
    CASE tag \in {"<article>", "</article>"} -> "article"
      [] tag \in {"<front>", "</front>"} -> "front"
      [] tag \in {"<body>", "</body>"} -> "body"
      [] OTHER -> "article-id"

IdElement(type, str) == [type |-> type, text |-> str]

\* The article-id elements of the front matter that are tried.
IdElements ==
    { <<>>,
      <<IdElement("pmc", <<"P", "M", "C", "1", "2">>)>>,
      <<IdElement("pmcid", <<"P", "M", "C", "1", "2">>)>>,
      <<IdElement("pmc", <<"1", "2">>)>>,
      <<IdElement("pmcid", <<"p", "m", "c", "1", "2">>)>>,
      <<IdElement("pmc", <<>>)>>,
      <<IdElement("doi", <<"P", "M", "C", "1", "2">>)>>,
      <<IdElement("doi", <<"x">>)>>,
      <<IdElement("doi", <<"p", "m", "c", "3">>),
        IdElement("pmc", <<"P", "M", "C", "1", "2">>)>> }

RECURSIVE IdTokens(_)
IdTokens(ids) ==
    IF ids = <<>> THEN <<>>
    ELSE <<OpenIdTag(Head(ids).type)>> \o Head(ids).text \o <<"</article-id>">>
            \o IdTokens(Tail(ids))

\* How a fragment may be damaged: not at all, its body left open, or nothing
\* left of it (the empty string).
Damages == {"none", "unclosed", "empty"}

Fragment(ids, body, damage) ==
    CASE damage = "none" ->
            <<"<article>", "<front>">> \o IdTokens(ids)
                \o <<"</front>", "<body>">> \o CharsOf(body)
                \o <<"</body>", "</article>">>
      [] damage = "unclosed" ->
            <<"<article>", "<front>">> \o IdTokens(ids)
                \o <<"</front>", "<body>">> \o CharsOf(body)
                \o <<"</article>">>
      [] damage = "empty" -> <<>>

IsTag(t) == t \in OpenTags \cup CloseTags

\* The tags of a token string nest properly under one root element.
RECURSIVE TagsOk(_, _, _)
TagsOk(tags, stack, rooted) ==
    IF tags = <<>> THEN stack = <<>> /\ rooted
    ELSE LET t == Head(tags)
         IN  IF t \in OpenTags
             THEN ~(stack = <<>> /\ rooted)
                  /\ TagsOk(Tail(tags), <<TagName(t)>> \o stack, TRUE)
             ELSE stack # <<>> /\ Head(stack) = TagName(t)
                  /\ TagsOk(Tail(tags), Tail(stack), rooted)

\* ET.fromstring accepts the string: one root element, every tag closed by
\* its own closing tag, no text outside the root (the string begins with the
\* root's opening tag and ends with its closing tag).
WellFormedXml(xml) ==
    /\ xml # <<>>
    /\ xml[1] \in OpenTags
    /\ xml[Len(xml)] \in CloseTags
    /\ TagsOk(SelectSeq(xml, IsTag), <<>>, FALSE)

\* element.text of the element opened at token i: the characters up to the
\* next tag.
ElementText(xml, i) ==
    LET tags == { j \in (i + 1)..Len(xml) : xml[j] \in OpenTags \cup CloseTags }
        stop == CHOOSE j \in tags : \A k \in tags : j <= k
    IN  SubSeq(xml, i + 1, stop - 1)

\* "for article_id in root.findall('.//article-id'): if ... in ['pmc',
\* 'pmcid']: pmc_id = article_id.text; break".  The text of an empty element
\* is None.
ElementPmcId(xml) ==
    LET hits == { i \in 1..Len(xml) :
                    xml[i] \in {OpenIdTag("pmc"), OpenIdTag("pmcid")} }
    IN  IF hits = {} THEN None
        ELSE ElementText(xml, CHOOSE i \in hits : \A j \in hits : i <= j)

\* re.search(r'(?:PMC|pmc)(\d+)', article_xml): f"PMC{group(1)}" of the
\* leftmost match, None when there is none.
FallbackPmcId(xml) ==
    LET hits == { i \in 1..(Len(xml) - 3) :
                    /\ SubSeq(xml, i, i + 2) \in {<<"P", "M", "C">>, <<"p", "m", "c">>}
                    /\ IsDigit(xml[i + 3]) }
    IN  IF hits = {} THEN None
        ELSE LET i == CHOOSE h \in hits : \A j \in hits : h <= j
             IN  <<"P", "M", "C">> \o SubSeq(xml, i + 3, i + 2 + DigitRun(xml, i + 3))

\* "if not pmc_id.startswith('PMC'): pmc_id = f'PMC{pmc_id}'"
EnsurePrefix(id) == IF StartsWith(id, <<"P", "M", "C">>) THEN id ELSE <<"P", "M", "C">> \o id

\* The text the identifiers are looked for in: extract_text of the body,
\* joined and with runs of whitespace collapsed.
ArticleText(xml) ==
    LET hits == { i \in 1..Len(xml) : xml[i] = "<body>" }
    IN  IF hits = {} THEN <<>>
        ELSE CollapseSpaces(Strip(ElementText(xml, CHOOSE i \in hits : TRUE)))

\* re.match(r'^syn\d{7,12}$', syn_id): case-sensitive.
ValidSynId(id) ==
    /\ StartsWith(id, <<"s", "y", "n">>)
    /\ Len(id) - 3 \in 7..12
    /\ \A i \in 4..Len(id) : IsDigit(id[i])

\* context.replace('"', "'")
ReplaceQuotes(str) == [i \in 1..Len(str) |-> IF str[i] = "\"" THEN "'" ELSE str[i]]

\* A plausible slip: the finding does not carry the document identifier.
FindingNoDoc(pmc_id, syn_id, context) ==
    [pmcid |-> None, synid |-> syn_id, context |-> context]

\* findings.append({"pmcid": pmc_id, "synid": syn_id, "context": context})
Finding(pmc_id, syn_id, context) ==
    [pmcid |-> pmc_id, synid |-> syn_id, context |-> context]

\* The window of process_article: 25 characters on each side.
Window == 25

\* The body of "for match in synapse_pattern.finditer(text)".
RECURSIVE FindingsOf(_, _, _)
FindingsOf(pmc_id, str, matches) ==
    IF matches = <<>> THEN <<>>
    ELSE LET m == Head(matches)
             lo == IF m.start - Window > 0 THEN m.start - Window ELSE 0
             hi == IF m.end + Window < Len(str) THEN m.end + Window ELSE Len(str)
             context == Strip(PySlice(str, lo, hi))
             syn_id == Lower(PySlice(str, m.start, m.end))
             skip == \/ ~ValidSynId(syn_id)
                     \/ Len(context) < 10
                     \/ ~Contains(context, syn_id)
         IN  (IF skip THEN <<>>
              ELSE <<Finding(pmc_id, syn_id, ReplaceQuotes(context))>>)
                 \o FindingsOf(pmc_id, str, Tail(matches))

\* A plausible slip: the parse error is let through to the caller.
OnParseErrorRaises == [raised |-> TRUE, pmc_id |-> None, findings |-> <<>>]

\* "except ET.ParseError as e: logger.error(...); return None, []"
OnParseError == [raised |-> FALSE, pmc_id |-> None, findings |-> <<>>]

\* The document identifier before the prefix is ensured, None when neither
\* the element scan nor the fallback finds one.
FoundPmcId(xml) ==
    IF ElementPmcId(xml) # None THEN ElementPmcId(xml) ELSE FallbackPmcId(xml)

\* ET.fromstring(article_xml) raises ParseError.
ArticleParseError ==
    /\ apc = "call"
    /\ call = "process_article"
    /\ ~WellFormedXml(article_xml)
    /\ ret' = OnParseError
    /\ apc' = "returned"
    /\ UNCHANGED <<call, article_xml, text, deduplication, context_size>>
    /\ UNCHANGED offText

\* No document identifier: "return None, []".
ArticleNoPmcId ==
    /\ apc = "call"
    /\ call = "process_article"
    /\ WellFormedXml(article_xml)
    /\ FoundPmcId(article_xml) = None
    /\ ret' = [raised |-> FALSE, pmc_id |-> None, findings |-> <<>>]
    /\ apc' = "returned"
    /\ UNCHANGED <<call, article_xml, text, deduplication, context_size>>
    /\ UNCHANGED offText

\* "return pmc_id, findings"
ArticleReturns ==
    /\ apc = "call"
    /\ call = "process_article"
    /\ WellFormedXml(article_xml)
    /\ FoundPmcId(article_xml) # None
    /\ LET pmc_id == EnsurePrefix(FoundPmcId(article_xml))
           str == ArticleText(article_xml)
       IN  ret' = [raised |-> FALSE, pmc_id |-> pmc_id,
                   findings |-> FindingsOf(pmc_id, str, FindIter(str, 1, TRUE))]
    /\ apc' = "returned"
    /\ UNCHANGED <<call, article_xml, text, deduplication, context_size>>
    /\ UNCHANGED offText

\* ------------------------- extract_synapse_ids_with_context (src/core.py)
\* extract_context(text, start_pos, end_pos, context_size)
\* A plausible slip: the text before the match is not cut to the context size.
ExtractContextUncut(str, start_pos, end_pos, size) ==
    IF str = <<>> THEN [before |-> <<>>, after |-> <<>>, full |-> <<>>]
    ELSE LET context_end == IF end_pos + size < Len(str) THEN end_pos + size ELSE Len(str)
             before == Strip(PySlice(str, 0, start_pos))
             after == Strip(PySlice(str, end_pos, context_end))
             target == PySlice(str, start_pos, end_pos)
         IN  [before |-> before, after |-> after,
              full |-> Strip(before \o <<" ">> \o target \o <<" ">> \o after)]

\* text[a:b] of Python for b >= 0 and any a: a negative a counts from the end.
PySliceFrom(str, a, b) ==
    PySlice(str, IF a >= 0 THEN a ELSE IF Len(str) + a > 0 THEN Len(str) + a ELSE 0, b)

\* A plausible slip: the start of the context is not kept at 0 or above.
ExtractContextNoFloor(str, start_pos, end_pos, size) ==
    IF str = <<>> THEN [before |-> <<>>, after |-> <<>>, full |-> <<>>]
    ELSE LET context_start == start_pos - size
             context_end == IF end_pos + size < Len(str) THEN end_pos + size ELSE Len(str)
             before == Strip(PySliceFrom(str, context_start, start_pos))
             after == Strip(PySlice(str, end_pos, context_end))
             target == PySlice(str, start_pos, end_pos)
         IN  [before |-> before, after |-> after,
              full |-> Strip(before \o <<" ">> \o target \o <<" ">> \o after)]

ExtractContext(str, start_pos, end_pos, size) ==
    IF str = <<>> THEN [before |-> <<>>, after |-> <<>>, full |-> <<>>]
    ELSE LET context_start == IF start_pos - size > 0 THEN start_pos - size ELSE 0
             context_end == IF end_pos + size < Len(str) THEN end_pos + size ELSE Len(str)
             before == Strip(PySlice(str, context_start, start_pos))
             after == Strip(PySlice(str, end_pos, context_end))
             target == PySlice(str, start_pos, end_pos)
         IN  [before |-> before, after |-> after,
              full |-> Strip(before \o <<" ">> \o target \o <<" ">> \o after)]

\* The body of "for match in self.synapse_pattern.finditer(text)".
RECURSIVE Extracted(_, _, _, _, _)
Extracted(str, matches, dedup, size, seen_ids) ==
    IF matches = <<>> THEN <<>>
    ELSE LET m == Head(matches)
             synapse_id == PySlice(str, m.start, m.end)
             context == ExtractContext(str, m.start, m.end, size)
         IN  IF dedup /\ synapse_id \in seen_ids
             THEN Extracted(str, Tail(matches), dedup, size, seen_ids)
             ELSE <<[synapse_id |-> synapse_id,
                     document |-> "document",
                     position |-> m.start,
                     context_before |-> context.before,
                     context_after |-> context.after,
                     full_context |-> context.full]>>
                      \o Extracted(str, Tail(matches), dedup, size,
                                   IF dedup THEN seen_ids \cup {synapse_id} ELSE seen_ids)

\* miner.extract_synapse_ids_with_context(text, document_name)
ExtractReturns ==
    /\ apc = "call"
    /\ call = "extract"
    /\ ret' = [raised |-> FALSE, pmc_id |-> None,
               findings |-> Extracted(text, FindIter(text, 1, FALSE),
                                      deduplication, context_size, {})]
    /\ apc' = "returned"
    /\ UNCHANGED <<call, article_xml, text, deduplication, context_size>>
    /\ UNCHANGED offText

\* The context sizes tried: none, two narrow ones and the default.
ContextSizes == {0, 2, 5, 100}

\* One of the two functions is called on one input.
InitText ==
    /\ WalkIdle
    /\ IterIdle
    /\ PoolIdle
    /\ TrackIdle
    /\ ReqIdle
    /\ DataIdle
    /\ MinerIdle
    /\ apc = "call"
    /\ ret = NoReturn
    /\ \/ /\ call = "process_article"
          /\ \E ids \in IdElements, body \in TextSeqs(MaxText), damage \in Damages :
                article_xml = Fragment(ids, body, damage)
          /\ text = <<>>
          /\ deduplication = FALSE
          /\ context_size = Window
       \/ /\ call = "extract"
          /\ article_xml = <<>>
          /\ \E body \in TextSeqs(MaxText) : text = CharsOf(body)
          /\ deduplication \in BOOLEAN
          /\ context_size \in ContextSizes

NextText ==
    \/ ArticleParseError
    \/ ArticleNoPmcId
    \/ ArticleReturns
    \/ ExtractReturns

SpecText == InitText /\ [][NextText]_vars

\* The calls of extract_synapse_ids_with_context alone.
InitExtract == InitText /\ call = "extract"

NextExtract == ExtractReturns

SpecExtract == InitExtract /\ [][NextExtract]_vars

\* ------------------------------------------- ProcessingTracker (tracking.py)
\* The markers the callers store.
Markers == {<<"PMC", "2">>, <<"PMC", "10">>}

\* The record update_last_processed_pmc_id dumps: the key 'updated_at' is
\* written with no marker.
RecordNoMarker(pmc_id) ==
    [kind |-> "object", marker |-> None, updated_at |-> TRUE]

\* The record update_last_processed_pmc_id dumps.
Record(pmc_id) ==
    [kind |-> "object", marker |-> pmc_id, updated_at |-> TRUE]

\* The outcome of a call: the value returned, or the exception let through.
Returned(value) == [raised |-> FALSE, value |-> value]

\* A read handler that lets the exception through.
OnReadErrorRaises == [raised |-> TRUE, value |-> None]

\* get_last_processed_pmc_id, except Exception: log and return None.
OnReadError == Returned(None)

\* A write handler that lets the exception through.
OnWriteErrorRaises == [raised |-> TRUE, value |-> FALSE]

\* update_last_processed_pmc_id, except Exception: log and return False.
OnWriteError == Returned(FALSE)

\* get_last_processed_pmc_id on a path holding file: without a file it
\* returns None; open and json.load raise on a file that cannot be read or is
\* not JSON, data.get raises on a value that is not an object and gives None
\* for a missing key.
GetLastProcessedPmcId(file) ==
    IF file.kind = "absent" THEN Returned(None)
    ELSE IF file.kind = "object" THEN Returned(file.marker)
    ELSE OnReadError

\* extract_starting_pmc_id: the first group of (PMC\d+)_PMC\d+ found anywhere
\* in the name by re.search.
ExtractStartingPmcId(filename) ==
    IF HasRange(filename) THEN <<"PMC", RangeStartStr(filename)>> ELSE None

\* One entry of the history of calls; fresh tells whether the call was made on
\* a tracker constructed for it (ProcessingTracker keeps only the path).
Call(op, fresh, arg, fault, out) ==
    [op |-> op, fresh |-> fresh, arg |-> arg, fault |-> fault,
     raised |-> out.raised, value |-> out.value]

\* tracker.get_last_processed_pmc_id()
TrackerGet ==
    /\ Len(calls) < MaxCalls
    /\ \E fresh \in BOOLEAN :
         calls' = Append(calls, Call("get", fresh, None, "none",
                                     GetLastProcessedPmcId(tracking_file)))
    /\ UNCHANGED <<tracking_file, parent_dir>>
    /\ UNCHANGED offTrack

\* tracker.update_last_processed_pmc_id(pmc_id): mkdir(parents, exist_ok) of
\* the directory, open(..., 'w'), which empties the file, then json.dump, which
\* fails when the disk is full.
TrackerUpdate ==
    /\ Len(calls) < MaxCalls
    /\ \E pmc_id \in Markers, fresh \in BOOLEAN, disk \in {"ok", "full"} :
         LET fault == IF parent_dir = "blocked" THEN "mkdir"
                      ELSE IF tracking_file.kind = "locked"
                              \/ (parent_dir = "readonly"
                                  /\ tracking_file.kind = "absent") THEN "open"
                      ELSE IF disk = "full" THEN "write"
                      ELSE "none"
         IN  /\ parent_dir' = IF parent_dir = "missing" THEN "exists"
                              ELSE parent_dir
             /\ tracking_file' = CASE fault \in {"mkdir", "open"} -> tracking_file
                                   [] fault = "write" -> FileState("empty")
                                   [] OTHER -> Record(pmc_id)
             /\ calls' = Append(calls,
                                Call("update", fresh, pmc_id, fault,
                                     IF fault = "none" THEN Returned(TRUE)
                                     ELSE OnWriteError))
    /\ UNCHANGED offTrack

\* tracker.extract_starting_pmc_id(filename)
TrackerExtract ==
    /\ Len(calls) < MaxCalls
    /\ \E filename \in Hrefs \cup {<<>>, <<"PMC", "1", ".xml.gz">>,
                                   <<"results_", "PMC", "1", "_", "PMC", "10",
                                     ".xml.gz">>} :
         calls' = Append(calls,
                         Call("extract", FALSE, filename, "none",
                              Returned(ExtractStartingPmcId(filename))))
    /\ UNCHANGED <<tracking_file, parent_dir>>
    /\ UNCHANGED offTrack

\* run_automated_workflow once batch_upload_workflow has returned True: the
\* batch files <output>.<xml filename>.csv found by glob are sorted as strings,
\* the xml filename is cut out of the last one (the parts [2:-1] of the name
\* split at its dots, the output being workflow_results.csv), its range start
\* is extracted and passed to update_last_processed_pmc_id, whose result is
\* not looked at.  These lines come after the construction of the uploader
\* (WfCreateUploader); they are modelled as they are written.
WfUpdateTracking ==
    /\ Len(calls) < MaxCalls
    /\ \E batch_files \in {{F2, F10}, {F1a, F2}, {F10}},
          disk \in {"ok", "full"} :
         LET sorted == SortedNames(batch_files)
             last_batch_file == sorted[Len(sorted)]
             last_processed_pmc == ExtractStartingPmcId(last_batch_file)
             fault == IF parent_dir = "blocked" THEN "mkdir"
                      ELSE IF tracking_file.kind = "locked"
                              \/ (parent_dir = "readonly"
                                  /\ tracking_file.kind = "absent") THEN "open"
                      ELSE IF disk = "full" THEN "write"
                      ELSE "none"
         IN  /\ parent_dir' = IF parent_dir = "missing" THEN "exists"
                              ELSE parent_dir
             /\ tracking_file' = CASE fault \in {"mkdir", "open"} -> tracking_file
                                   [] fault = "write" -> FileState("empty")
                                   [] OTHER -> Record(last_processed_pmc)
             /\ calls' = Append(calls,
                                [batch_files |-> batch_files]
                                @@ Call("update", FALSE, last_processed_pmc,
                                        fault,
                                        IF fault = "none" THEN Returned(TRUE)
                                        ELSE OnWriteError))
    /\ UNCHANGED offTrack

\* ProcessingTracker(tracking_file) on a path in any state. The directory of
\* the file is there, not yet made, impossible to make (a regular file is in
\* the way) or closed to new files; the path holds no file, an empty file,
\* text that is not JSON, a JSON value that is not an object, a file that can
\* be neither read nor written, or a JSON object, with or without a marker.
\* A file is only there when its directory is.
InitTrack ==
    /\ WalkIdle
    /\ IterIdle
    /\ PoolIdle
    /\ TextIdle
    /\ ReqIdle
    /\ DataIdle
    /\ MinerIdle
    /\ parent_dir \in {"exists", "missing", "blocked", "readonly"}
    /\ tracking_file \in {FileState(k) : k \in {"absent", "empty", "garbage",
                                                 "list", "locked", "object"}}
                             \cup {Record(m) : m \in Markers}
    /\ parent_dir \in {"missing", "blocked"} => tracking_file.kind = "absent"
    /\ calls = <<>>

NextTrack ==
    \/ TrackerGet
    \/ TrackerUpdate
    \/ TrackerExtract
    \/ WfUpdateTracking

SpecTrack == InitTrack /\ [][NextTrack]_vars

\* ---------------------------------------------------------- _make_request
\* A plausible slip: every HTTP error is retried while attempts remain.
RequestRetryAllowedAnyStatus(response, attempt_) == attempt_ < MaxRetries - 1

\* The two handlers of _make_request: an HTTPError is retried when its
\* status is 503 and attempts remain, any other exception when attempts
\* remain (max_retries is 3 here too).
RequestRetryAllowed(response, attempt_) ==
    IF response.kind = "HTTPError"
    THEN response.detail = 503 /\ attempt_ < MaxRetries - 1
    ELSE attempt_ < MaxRetries - 1

\* urllib.request.urlopen(url, timeout=timeout) and response.read().decode():
\* the server answers with a page or an error status, or the connection
\* fails or times out.  A page is returned; an error is retried after a sleep
\* or raised.
RequestTry ==
    /\ rpc = "urlopen"
    /\ \E response \in
            {[kind |-> "body", detail |-> b] : b \in {"page A", "page B"}}
              \cup {[kind |-> "HTTPError", detail |-> c] : c \in {403, 404, 500, 503}}
              \cup {[kind |-> "error", detail |-> e] : e \in {"URLError", "timeout"}} :
          /\ req_log' = Append(req_log, response)
          /\ IF response.kind = "body"
             THEN /\ req_ret' = [raised |-> FALSE, value |-> response.detail]
                  /\ rpc' = "returned"
             ELSE IF RequestRetryAllowed(response, req_attempt)
             THEN /\ req_ret' = req_ret
                  /\ rpc' = "sleep"
             ELSE /\ req_ret' = [raised |-> TRUE, value |-> response.detail]
                  /\ rpc' = "raised"
    /\ UNCHANGED req_attempt
    /\ UNCHANGED offReq

\* time.sleep(retry_delay); continue
RequestSleep ==
    /\ rpc = "sleep"
    /\ req_log' = Append(req_log, [kind |-> "sleep", detail |-> 5])
    /\ req_attempt' = req_attempt + 1
    /\ rpc' = "urlopen"
    /\ UNCHANGED req_ret
    /\ UNCHANGED offReq

\* self._make_request(base_url): the loop starts with attempt 0.
InitRequest ==
    /\ WalkIdle
    /\ IterIdle
    /\ PoolIdle
    /\ TextIdle
    /\ TrackIdle
    /\ DataIdle
    /\ MinerIdle
    /\ req_attempt = 0
    /\ req_log = <<>>
    /\ req_ret = None
    /\ rpc = "urlopen"

\* urlopen is given a timeout and sleep ends: a request that can take a step
\* takes it.
SpecRequest ==
    /\ InitRequest
    /\ [][RequestTry \/ RequestSleep]_vars
    /\ WF_vars(RequestTry \/ RequestSleep)

\* ------------------------------------------ combine_results (data_utils.py)
\* Most rows of a batch file.
MaxRows == 2

\* file.name.split('.') of the batch file <output>.<xml filename>.csv, every
\* part a token string: the parts of the output name, the stem of the corpus
\* file name, xml, gz, csv.
NameParts(b) ==
    b.base \o <<SubSeq(b.xml, 1, 5), <<"xml">>, <<"gz">>, <<"csv">>>>

\* The name of a corpus file split at its dots.
XmlParts(f) == <<SubSeq(f, 1, 5), <<"xml">>, <<"gz">>>>

\* pd.concat(all_data, ignore_index=True)
RECURSIVE ConcatFrames(_)
ConcatFrames(frames) ==
    IF frames = <<>> THEN <<>>
    ELSE Head(frames) \o ConcatFrames(Tail(frames))

\* DataFrame.drop_duplicates(subset=<all columns but source_file>): of the rows
\* that agree on the subset the first is kept.
RECURSIVE DropDuplicates(_)
DropDuplicates(df) ==
    IF df = <<>> THEN <<>>
    ELSE LET n == Len(df)
             front == DropDuplicates(SubSeq(df, 1, n - 1))
         IN  IF \E j \in 1..(n - 1) : df[j].row = df[n].row THEN front
             ELSE Append(front, df[n])

\* combine_results(output_path, directory, pattern): the files the pattern
\* matches are read in sorted order, a file that cannot be read is logged and
\* skipped, each frame gets the column source_file, the parts [2:-1] of the
\* file's name joined again; the frames are concatenated, duplicates dropped
\* and the result written.  Without files or without a readable file nothing
\* is written and None is returned, as when to_csv raises.
CombineResults ==
    /\ combine_ret = "pending"
    /\ LET batch_files == SortedNames({ b.xml : b \in batch_csv })
           BatchOf(f) == CHOOSE b \in batch_csv : b.xml = f
           Frame(b) ==
               LET parts == NameParts(b)
                   source_file == SubSeq(parts, 3, Len(parts) - 1)
               IN  [i \in 1..Len(b.rows) |->
                       [row |-> b.rows[i], source_file |-> source_file]]
           read == SelectSeq(batch_files, LAMBDA f : BatchOf(f).readable)
           all_data == [i \in 1..Len(read) |-> Frame(BatchOf(read[i]))]
           combined_df == DropDuplicates(ConcatFrames(all_data))
       IN  IF batch_files = <<>> \/ all_data = <<>>
           THEN combine_ret' = "None" /\ combined_csv' = combined_csv
           ELSE \E saved \in BOOLEAN :
                  IF saved
                  THEN /\ combined_csv' = CsvFile(combined_df)
                       /\ combine_ret' = "output_path"
                  ELSE /\ combined_csv' \in FailedWrites(combined_csv,
                                                         combined_df)
                       /\ combine_ret' = "None"
    /\ UNCHANGED batch_csv
    /\ UNCHANGED offData

\* combine_results on the batch files of a run: <output>.<xml filename>.csv
\* for some of the corpus files, the output named results.csv (the default) or
\* out; a batch file holds findings, or cannot be read.
InitCombine ==
    /\ WalkIdle
    /\ IterIdle
    /\ PoolIdle
    /\ TextIdle
    /\ TrackIdle
    /\ ReqIdle
    /\ MinerIdle
    /\ \E base \in {<<<<"results">>, <<"csv">>>>, <<<<"out">>>>},
          S \in SUBSET {F1a, F2, F10} :
         \E content \in
               [S -> [readable : {TRUE},
                      rows : UNION { [1..n -> { <<"PMC1", "syn1", "a">>,
                                                <<"PMC1", "syn2", "a">>,
                                                <<"PMC2", "syn1", "b">> }] :
                                     n \in 0..MaxRows }]
                     \cup {[readable |-> FALSE, rows |-> <<>>]}] :
             batch_csv = { [base |-> base, xml |-> f,
                            readable |-> content[f].readable,
                            rows |-> content[f].rows] : f \in S }
    /\ combined_csv = [exists |-> FALSE, rows |-> <<>>]
    /\ combine_ret = "pending"

SpecCombine == InitCombine /\ [][CombineResults]_vars

\* ----------------------------------- the first SynapseMiner (src/core.py)
\* Most files of a directory.
MaxDocs == 3

\* The names of the files of a directory, by their place in all_files.
DocNames == <<"a.txt", "b.txt", "c.pdf", "d.xml", "e.html">>

\* The identifiers syn0000001 .. syn0000012 are written 1 .. 12; the findings
\* of a file are written as the identifiers they hold, in order.
IdRun(a, b) == [i \in 1..(b - a + 1) |-> a + i - 1]

\* What process_file does on a file: it raises, or returns its findings, none
\* when the file holds no text or no identifier.
FileOutcomes ==
    {[raises |-> TRUE, findings |-> <<>>]}
      \cup { [raises |-> FALSE, findings |-> f] :
               f \in {<<>>, <<1>>, <<1, 1>>, <<11>>, IdRun(1, 11),
                      IdRun(2, 12)} }

\* The identifiers of the findings of a result set, every mention, in the
\* order in which results.items() and the findings are gone through.
RECURSIVE MentionsOf(_)
MentionsOf(rs) ==
    IF rs = <<>> THEN <<>> ELSE Head(rs).findings \o MentionsOf(Tail(rs))

\* The keys of a dict filled in the order of ids: each once, by first mention.
RECURSIVE KeysOf(_)
KeysOf(ids) ==
    IF ids = <<>> THEN <<>>
    ELSE LET n == Len(ids)
             front == KeysOf(SubSeq(ids, 1, n - 1))
         IN  IF \E j \in 1..(n - 1) : ids[j] = ids[n] THEN front
             ELSE Append(front, ids[n])

\* len(docs) of id_document_freq: the documents that mention the identifier.
DocumentFreq(rs, id) ==
    Cardinality({ k \in 1..Len(rs) :
                    \E j \in 1..Len(rs[k].findings) : rs[k].findings[j] = id })

\* sorted(items, key=lambda x: x[1], reverse=True): by count, the greater
\* first, items of equal count in the order they had.
RECURSIVE SortedByCount(_)
SortedByCount(items) ==
    IF items = <<>> THEN <<>>
    ELSE LET n == Len(items)
             front == SortedByCount(SubSeq(items, 1, n - 1))
             at == Cardinality({ k \in 1..Len(front) :
                                   front[k][2] >= items[n][2] })
         IN  SubSeq(front, 1, at) \o <<items[n]>>
               \o SubSeq(front, at + 1, Len(front))

\* The executor's thread has run process_file on a file to its end: the future
\* holds the findings or the exception.
DirWorkerDone ==
    /\ mpc = "process_directory"
    /\ parallel
    /\ \E i \in 1..Len(futures) :
         /\ futures[i] = "pending"
         /\ futures' = [futures EXCEPT ![i] = "done"]
    /\ UNCHANGED <<dir_files, parallel, results, summary, mpc>>
    /\ UNCHANGED offMiner

\* A slip: the findings are stored whether or not there are any.
DirCollectStoresEmpty ==
    /\ mpc = "process_directory"
    /\ IF dir_files = <<>>
       THEN /\ mpc' = "generate_summary"
            /\ UNCHANGED <<futures, results>>
       ELSE \E i \in 1..Len(futures) :
              /\ IF parallel THEN futures[i] = "done"
                 ELSE /\ futures[i] = "pending"
                      /\ \A j \in 1..(i - 1) : futures[j] = "collected"
              /\ futures' = [futures EXCEPT ![i] = "collected"]
              /\ results' =
                    IF dir_files[i].raises THEN results
                    ELSE Append(results, [doc |-> DocNames[i],
                                          findings |-> dir_files[i].findings])
              /\ mpc' = IF \A j \in 1..Len(futures) :
                               j # i => futures[j] = "collected"
                        THEN "generate_summary" ELSE mpc
    /\ UNCHANGED <<dir_files, parallel, summary>>
    /\ UNCHANGED offMiner

\* One turn of the loop of process_directory. With parallel=True the loop goes
\* through as_completed(future_to_file): the next future is any that is done;
\* without, the files are processed one after the other in the order of
\* all_files.  An exception of the file is logged, findings are stored under
\* the file's name when there are any.  After the last file, or at once when
\* the directory holds no file, results is returned and the old main assigns
\* it to miner.results.
DirCollect ==
    /\ mpc = "process_directory"
    /\ IF dir_files = <<>>
       THEN /\ mpc' = "generate_summary"
            /\ UNCHANGED <<futures, results>>
       ELSE \E i \in 1..Len(futures) :
              /\ IF parallel THEN futures[i] = "done"
                 ELSE /\ futures[i] = "pending"
                      /\ \A j \in 1..(i - 1) : futures[j] = "collected"
              /\ futures' = [futures EXCEPT ![i] = "collected"]
              /\ results' =
                    IF dir_files[i].raises \/ dir_files[i].findings = <<>>
                    THEN results
                    ELSE Append(results, [doc |-> DocNames[i],
                                          findings |-> dir_files[i].findings])
              /\ mpc' = IF \A j \in 1..Len(futures) :
                               j # i => futures[j] = "collected"
                        THEN "generate_summary" ELSE mpc
    /\ UNCHANGED <<dir_files, parallel, summary>>
    /\ UNCHANGED offMiner

\* A slip: the ten first identifiers are taken as they come, unsorted.
GenerateSummaryUnsorted ==
    /\ mpc = "generate_summary"
    /\ LET mentions == MentionsOf(results)
           keys == KeysOf(mentions)
           items == [k \in 1..Len(keys) |->
                        <<keys[k], DocumentFreq(results, keys[k])>>]
           top_ids == SubSeq(items, 1, IF Len(items) < 10 THEN Len(items)
                                       ELSE 10)
       IN  summary' = [total_documents_processed |-> Len(results),
                       total_synapse_id_mentions |-> Len(mentions),
                       unique_synapse_ids |-> Len(keys),
                       top_mentioned_ids |-> top_ids]
    /\ mpc' = "done"
    /\ UNCHANGED <<dir_files, parallel, futures, results>>
    /\ UNCHANGED offMiner

\* generate_summary on miner.results: the documents, the mentions, the distinct
\* identifiers, and of the identifiers with their document counts, sorted by
\* count, the first ten ([:10]), as a dict, which keeps that order.
GenerateSummary ==
    /\ mpc = "generate_summary"
    /\ LET mentions == MentionsOf(results)
           keys == KeysOf(mentions)
           items == [k \in 1..Len(keys) |->
                        <<keys[k], DocumentFreq(results, keys[k])>>]
           sorted == SortedByCount(items)
           top_ids == SubSeq(sorted, 1, IF Len(sorted) < 10 THEN Len(sorted)
                                        ELSE 10)
       IN  summary' = [total_documents_processed |-> Len(results),
                       total_synapse_id_mentions |-> Len(mentions),
                       unique_synapse_ids |-> Len(keys),
                       top_mentioned_ids |-> top_ids]
    /\ mpc' = "done"
    /\ UNCHANGED <<dir_files, parallel, futures, results>>
    /\ UNCHANGED offMiner

\* The old main on a directory: process_directory has found the files and, with
\* parallel=True, submitted one process_file call for each.
InitMiner ==
    /\ WalkIdle
    /\ IterIdle
    /\ PoolIdle
    /\ TextIdle
    /\ TrackIdle
    /\ ReqIdle
    /\ DataIdle
    /\ dir_files \in UNION { [1..n -> FileOutcomes] : n \in 0..MaxDocs }
    /\ parallel \in BOOLEAN
    /\ futures = [i \in 1..Len(dir_files) |-> "pending"]
    /\ results = <<>>
    /\ summary = NoSummary
    /\ mpc = "process_directory"

NextMiner ==
    \/ DirWorkerDone
    \/ DirCollect
    \/ GenerateSummary

SpecMiner == InitMiner /\ [][NextMiner]_vars

\* ------------------------------------------------------------- properties
\* The range start encoded in a file name.
StartOf(f) == IntOf(RangeStartStr(f))

\* The range start of every corpus file.
CorpusStart == [f \in CorpusFiles |-> StartOf(f)]

\* All the listed corpus files, in the order of the sorted list.
Listed == Filenames(SortByStart(ParseListing(page)))

\* The findings returned by the scans made so far, in scan order.
RECURSIVE FoundIn(_)
FoundIn(log) == IF log = <<>> THEN <<>> ELSE Head(log).found \o FoundIn(Tail(log))

Least(S) == CHOOSE i \in S : \A j \in S : i <= j

WalkEnded == pc \in {"returned", "raised", "exit0", "exit1"}

\* C1: in run_automated_workflow, when the tracking file holds a marker PMC<n>,
\* the walk of the run begins at the first listed file whose range start is
\* >= n and downloads no listed file whose range start is < n.
C1_WorkflowResumesAtMarker ==
    (command = "workflow" /\ pc \in {"exit0", "exit1"} /\ tracking # <<>>) =>
        LET n == IntOf(tracking[2])
            later == { i \in 1..Len(Listed) : StartOf(Listed[i]) >= n }
        IN  /\ \A i \in 1..Len(attempted) : StartOf(attempted[i]) >= n
            /\ later # {} =>
                  /\ attempted # <<>>
                  /\ attempted[1] = Listed[Least(later)]

\* C2: when process_http_files is given a resume marker that parses as a range
\* with start s, every file it downloads has a range start >= s.
C2_DownloadsOnlyFromMarker ==
    (command = "http" /\ HasRange(start_from)) =>
        \A i \in 1..Len(attempted) : StartOf(attempted[i]) >= StartOf(start_from)

\* C3 as stated: the files are downloaded and scanned in strictly ascending
\* order of range start, whatever the order of the anchors in the page.
C3_StrictlyAscending ==
    \A i, j \in 1..Len(attempted) :
        i < j => StartOf(attempted[i]) < StartOf(attempted[j])

\* C3 as amended: the files are downloaded and scanned one at a time in
\* ascending (non-decreasing) order of range start, whatever the order of the
\* anchors in the page, and in strictly ascending order when no two listed
\* files have the same range start.
C3_AscendingOrder ==
    LET start(i) == CorpusStart[attempted[i]]
        listed == Listed
        starts == [a \in DOMAIN listed |-> CorpusStart[listed[a]]]
        sharedStart ==
            \E a, b \in DOMAIN starts : a # b /\ starts[a] = starts[b]
    IN  /\ \A i \in 1..Len(attempted) - 1 :
              /\ start(i) <= start(i + 1)
              /\ start(i) = start(i + 1) => sharedStart
        /\ \A i \in 1..Len(scanLog) - 1 :
              CorpusStart[scanLog[i].file] <= CorpusStart[scanLog[i + 1].file]
        /\ Len(scanLog) <= Len(attempted)

\* C3 witness: a page that lists a later range first, both files walked.
C3_Witness ==
    /\ pc = "exit0"
    /\ page = <<F10, F2>>
    /\ attempted = <<F2, F10>>
    /\ Len(scanLog) = 2

\* C4: a failure of one file never ends the walk: the files attempted are
\* always the selected files up to the loop position, each once and in order,
\* and when the loop is over every selected file has been attempted.
C4_EveryFileAttemptedOnce ==
    /\ Len(attempted) <= Len(file_urls)
    /\ attempted = SubSeq(file_urls, 1, Len(attempted))
    /\ pc \in {"download", "sleep", "scan", "write_batch", "write_cum", "remove"}
          => Len(attempted) \in {idx - 1, idx}
    /\ pc \in {"scan", "write_batch", "write_cum", "remove", "sleep"}
          => Len(attempted) = idx
    /\ pc \in {"final_save", "finally", "returned", "raised", "exit0", "exit1"}
          => attempted = file_urls

\* C4 witness: the first of two files failed all its downloads, the second
\* was still downloaded and scanned, and the call returned.
C4_Witness ==
    /\ pc = "exit0"
    /\ Len(attempted) = 2
    /\ attempted[1] # attempted[2]
    /\ Len(scanLog) = 1
    /\ scanLog[1].file = attempted[2]

\* C5: once a file that yields findings has been processed, its per-file
\* output holds exactly its findings and the cumulative output holds exactly
\* the findings of all files scanned so far, in file order; when the walk
\* returns, the cumulative output holds the findings of every scanned file.
C5_OutputsHoldFindings ==
    /\ (pc = "remove" /\ findings # <<>>) =>
          /\ scanLog[Len(scanLog)].file = File
          /\ batchOut[File] = CsvFile(scanLog[Len(scanLog)].found)
          /\ cumOut = CsvFile(FoundIn(scanLog))
    /\ (pc \in {"returned", "exit0"} /\ FoundIn(scanLog) # <<>>) =>
          cumOut = CsvFile(FoundIn(scanLog))

\* C5 witness: two different files with findings were processed and the call
\* returned.
C5_Witness ==
    /\ pc = "exit0"
    /\ Len(scanLog) = 2
    /\ scanLog[1].file # scanLog[2].file
    /\ scanLog[1].found # <<>>
    /\ scanLog[2].found # <<>>
    /\ cumOut = CsvFile(scanLog[1].found \o scanLog[2].found)

\* C6: when process_http_files has returned or raised, the scratch directory
\* no longer exists.
C6_ScratchRemoved == WalkEnded => (~tempDir /\ scratch = {})

\* C6 witness: the call ended with an error after a file had failed and left
\* its download behind.
C6_Witness ==
    /\ pc = "raised"
    /\ Len(attempted) = 2
    /\ Len(scanLog) = 1
    /\ ~tempDir

\* C7: at most one downloaded file is in the scratch directory at any time:
\* when the download of a file starts, the copy of every earlier file, failed
\* or not, has been deleted.
C7_AtMostOneScratchFile ==
    /\ Cardinality(scratch) <= 1
    /\ (pc = "download" /\ Len(attempted) < idx) => scratch = {}

\* C8: given a cap max_files (any integer, 0 included), the call downloads at
\* most max_files files, the first max_files entries of the sorted list after
\* the resume skip.
C8_AtMostMaxFiles ==
    (command = "http" /\ max_files # <<>>) =>
        LET cap == IF max_files[1] > 0 THEN max_files[1] ELSE 0
            rest == Filenames(SkipTo(SortByStart(ParseListing(page)), start_from))
        IN  /\ Len(attempted) <= cap
            /\ attempted = SubSeq(rest, 1, Len(attempted))

\* C9: a download is attempted at most 3 times: a failed attempt before the
\* third is followed by a delay and a retry of the same file, a successful
\* attempt ends the retries, and the third failure fails that file only: the
\* walk goes on to the next file.
C9_BoundedRetries ==
    [][ /\ pc = "download" =>
              /\ tries' <= 3
              /\ \/ pc' = "scan" /\ idx' = idx
                 \/ pc' = "sleep" /\ idx' = idx /\ tries' < 3
                 \/ /\ tries' = 3
                    /\ idx' = idx + 1
                    /\ pc' = (IF idx' > Len(file_urls) THEN "final_save" ELSE "download")
                    /\ raising' = FALSE
        /\ pc = "sleep" =>
              /\ pc' = "download"
              /\ idx' = idx
              /\ slept' = slept + 1
              /\ slept' = tries
              /\ tries' = tries
        /\ pc = "scan" => pc' \in {"write_batch", "remove"}
      ]_vars

\* C9 witness: the third download of the first file failed and the second
\* file is next.
C9_Witness ==
    /\ pc = "download"
    /\ idx = 2
    /\ Len(attempted) = 1
    /\ tries = 3
    /\ slept = 2

\* The fragments of a stream of pieces, each ending with its end marker.
RECURSIVE FragmentsOf(_, _)
FragmentsOf(ps, cur) ==
    IF ps = <<>> THEN <<>>
    ELSE IF Head(ps) = "E"
         THEN <<TextOf(Append(cur, "E"))>> \o FragmentsOf(Tail(ps), <<>>)
         ELSE FragmentsOf(Tail(ps), Append(cur, Head(ps)))

\* The stream is a concatenation of fragments <article ...>...</article>: a
\* start marker, at least one character of text, an end marker.
RECURSIVE WellFormed(_, _)
WellFormed(ps, state) ==
    IF ps = <<>> THEN state = "out"
    ELSE CASE state = "out" -> Head(ps) = "S" /\ WellFormed(Tail(ps), "tag")
           [] state = "tag" -> Head(ps) = "T" /\ WellFormed(Tail(ps), "in")
           [] state = "in" -> \/ Head(ps) = "T" /\ WellFormed(Tail(ps), "in")
                              \/ Head(ps) = "E" /\ WellFormed(Tail(ps), "out")

RECURSIVE Concat(_)
Concat(strs) == IF strs = <<>> THEN <<>> ELSE Head(strs) \o Concat(Tail(strs))

\* C10: on a concatenation of n well-formed, non-nested fragments
\* _iter_articles yields exactly those fragments, in order, each once, with no
\* character lost or duplicated, for every chunk size.
C10_YieldsTheFragments ==
    WellFormed(pieces, "out") =>
        /\ Len(yielded) <= Len(FragmentsOf(pieces, <<>>))
        /\ yielded = SubSeq(FragmentsOf(pieces, <<>>), 1, Len(yielded))
        /\ ipc = "done" =>
              /\ yielded = FragmentsOf(pieces, <<>>)
              /\ Concat(yielded) = Stream

\* C10 witness: two fragments read in chunks shorter than a marker.
C10_Witness ==
    /\ ipc = "done"
    /\ WellFormed(pieces, "out")
    /\ Len(yielded) = 2
    /\ chunk_size = 4

\* The string ends with pat.
EndsWith(str, pat) ==
    Len(str) >= Len(pat) /\ SubSeq(str, Len(str) - Len(pat) + 1, Len(str)) = pat

\* C11: for every stream and every chunking of it, every string yielded by
\* _iter_articles starts with '<article ' and ends with '</article>'.
C11_YieldedAreDelimited ==
    \A i \in 1..Len(yielded) :
        StartsWith(yielded[i], StartMarker) /\ EndsWith(yielded[i], EndMarker)

\* The 0-based offset of the last start marker of the stream, or -1.
LastStart ==
    LET hits == { i \in 0..(Len(Stream) - Len(StartMarker)) :
                    Find(Stream, StartMarker, i) = i }
    IN  IF hits = {} THEN -1 ELSE CHOOSE i \in hits : \A j \in hits : j <= i

\* The stream ends in a start marker that no end marker follows.
TrailingStart == LastStart # -1 /\ Find(Stream, EndMarker, LastStart) = -1

Returning == { i \in 1..Len(articles) : articles[i] \notin {"raise", "crash"} }

\* The positions of file_findings that hold findings of article i.
PlacesOf(i) == { k \in 1..Len(file_findings) : file_findings[k].article = i }

\* C13: a failure of the article processor on one article, which makes its
\* future raise, is counted as one processed article with no findings and
\* does not end the scan: when the scan is over the count is the number of
\* fragments and the findings of every other article are in the list.
C13_FailedArticleIsCounted ==
    ppc = "done" =>
        /\ processed_count = Len(articles)
        /\ \A i \in Returning :
              \A m \in 1..Len(ArticleFindings(i)) :
                  \E k \in 1..Len(file_findings) :
                      file_findings[k] = ArticleFindings(i)[m]

\* C14: whatever the order in which the futures complete, the list holds the
\* findings of every article, each exactly once, and those of one article
\* stand together in the order of their matches.  (Every future completes:
\* no worker process dies.)
C14_SameFindingsAnyOrder ==
    /\ \A i \in 1..Len(articles) :
          PlacesOf(i) # {} =>
             \E k \in 1..Len(file_findings) :
                /\ PlacesOf(i) = k..(k + Len(ArticleFindings(i)) - 1)
                /\ SubSeq(file_findings, k, k + Len(ArticleFindings(i)) - 1)
                      = ArticleFindings(i)
    /\ (ppc = "done" /\ ~broken) =>
          \A i \in Returning : ArticleFindings(i) # <<>> => PlacesOf(i) # {}

\* C14 witness: the second article's future completed before the first's.
C14_Witness ==
    /\ ppc = "done"
    /\ Len(articles) >= 2
    /\ articles[1] = "two"
    /\ articles[2] = "two"
    /\ file_findings[1].article = 2
    /\ file_findings[3].article = 1
    /\ ~broken

\* process_article has returned or raised.
ArticleDone == call = "process_article" /\ apc = "returned"

\* C15: process_article never raises: for every fragment it returns a pair,
\* and for malformed XML (the empty string included) the pair is (None, []).
C15_ProcessArticleNeverRaises ==
    ArticleDone =>
        /\ ~ret.raised
        /\ ~WellFormedXml(article_xml) =>
              (ret.pmc_id = None /\ ret.findings = <<>>)

\* C15 witness: a fragment with a document identifier and an identifier in
\* its text, whose body is never closed.
C15_Witness ==
    /\ ArticleDone
    /\ article_xml = Fragment(<<IdElement("pmc", <<"P", "M", "C", "1", "2">>)>>,
                              <<"syn", "d7">>, "unclosed")

\* C16: every finding of process_article has a pmcid of the form
\* 'pmc:PMC<digits>'.
C16_PmcidIsNamespaced ==
    ArticleDone =>
        \A i \in 1..Len(ret.findings) :
            LET id == ret.findings[i].pmcid
            IN  /\ StartsWith(id, <<"p", "m", "c", ":", "P", "M", "C">>)
                /\ Len(id) > 7
                /\ \A k \in 8..Len(id) : id[k] \in AsciiDigits

\* C17: process_article attaches one and the same document identifier to all
\* its findings, the one it returns first; when neither the element scan nor
\* the fallback finds an identifier it returns (None, []).
C17_OneDocumentIdentifier ==
    ArticleDone =>
        /\ \A i \in 1..Len(ret.findings) : ret.findings[i].pmcid = ret.pmc_id
        /\ ret.findings # <<>> => ret.pmc_id # None
        /\ (ElementPmcId(article_xml) = None /\ FallbackPmcId(article_xml) = None)
              => (ret.pmc_id = None /\ ret.findings = <<>>)

\* C17 witness: two findings in an article whose identifier element holds the
\* bare number.
C17_Witness ==
    /\ ArticleDone
    /\ ElementPmcId(article_xml) = <<"1", "2">>
    /\ Len(ret.findings) = 2
    /\ ret.findings[1].synid # ret.findings[2].synid
    /\ ret.pmc_id = <<"P", "M", "C", "1", "2">>

\* The 1-based positions of text where 'syn' in any case is followed by
\* exactly 7 to 12 digits and is not preceded by a digit.
Occurrences(str) ==
    { i \in 1..Len(str) :
        /\ SynAt(str, i)
        /\ DigitRun(str, i + 3) \in 7..12
        /\ (i = 1 \/ ~IsDigit(str[i - 1])) }

\* C18: with deduplication off, extract_synapse_ids_with_context returns one
\* finding for each occurrence of 'syn' and exactly 7 to 12 digits not
\* adjacent to another digit, and no finding taken from 'syn' and 6 or fewer
\* digits, from 'syn' and 13 or more digits, or from another prefix.
C18_MatchesSevenToTwelveDigits ==
    (call = "extract" /\ apc = "returned" /\ ~deduplication) =>
        /\ \A i \in Occurrences(text) :
              \E k \in 1..Len(ret.findings) : ret.findings[k].position = i - 1
        /\ \A k \in 1..Len(ret.findings) :
              /\ SynAt(text, ret.findings[k].position + 1)
              /\ DigitRun(text, ret.findings[k].position + 4) \in 7..12

\* C19: every synid of process_article matches ^syn[0-9]{7,12}$ and was taken
\* from an occurrence in the article text that no digit precedes or follows;
\* 'syn' and 13 or more digits gives no finding.
C19_SynidIsWellDelimited ==
    ArticleDone =>
        \A k \in 1..Len(ret.findings) :
            LET id == ret.findings[k].synid
                str == ArticleText(article_xml)
            IN  /\ StartsWith(id, <<"s", "y", "n">>)
                /\ Len(id) - 3 \in 7..12
                /\ \A i \in 4..Len(id) : id[i] \in AsciiDigits
                /\ \E i \in 1..Len(str) :
                      /\ i + Len(id) - 1 <= Len(str)
                      /\ Lower(SubSeq(str, i, i + Len(id) - 1)) = id
                      /\ (i = 1 \/ ~IsDigit(str[i - 1]))
                      /\ (i + Len(id) - 1 = Len(str) \/ ~IsDigit(str[i + Len(id)]))

\* C20: every identifier returned by extract_synapse_ids_with_context and by
\* process_article equals its own lowercase form.
C20_IdentifiersAreLowercase ==
    /\ ArticleDone =>
          \A k \in 1..Len(ret.findings) :
              ret.findings[k].synid = Lower(ret.findings[k].synid)
    /\ (call = "extract" /\ apc = "returned") =>
          \A k \in 1..Len(ret.findings) :
              ret.findings[k].synapse_id = Lower(ret.findings[k].synapse_id)

\* C21: matching in process_article is case-insensitive: in an article with a
\* document identifier, every occurrence of 'syn' in any letter case followed
\* by 7 to 12 digits and not adjacent to another digit gives a finding with
\* the lowercased identifier.
C21_CaseInsensitiveMatch ==
    (ArticleDone /\ WellFormedXml(article_xml) /\ FoundPmcId(article_xml) # None) =>
        LET str == ArticleText(article_xml)
        IN  \A i \in Occurrences(str) :
                \E k \in 1..Len(ret.findings) :
                    ret.findings[k].synid
                        = Lower(SubSeq(str, i, i + 2 + DigitRun(str, i + 3)))

ExtractDone == call = "extract" /\ apc = "returned"

\* The identifier that occurs at the 1-based position i of a text, lowercased.
IdAt(str, i) == Lower(SubSeq(str, i, i + 2 + DigitRun(str, i + 3)))

\* The indexes of the findings whose identifier is X, whatever its case.
FindingsFor(X) ==
    { n \in 1..Len(ret.findings) : Lower(ret.findings[n].synapse_id) = X }

\* C22: for a text in which identifier X occurs k > 1 times,
\* extract_synapse_ids_with_context with deduplication on returns exactly one
\* finding for X, the first occurrence, and with deduplication off returns k
\* findings for X, one per occurrence, at strictly increasing positions.
C22_DeduplicationPerIdentifier ==
    ExtractDone =>
        LET occ == Occurrences(text)
        IN  \A i \in occ :
                LET X == IdAt(text, i)
                    places == { j \in occ : IdAt(text, j) = X }
                    found == FindingsFor(X)
                IN  Cardinality(places) > 1 =>
                      IF deduplication
                      THEN /\ Cardinality(found) = 1
                           /\ \A n \in found : \A j \in places :
                                  ret.findings[n].position <= j - 1
                      ELSE /\ Cardinality(found) = Cardinality(places)
                           /\ { ret.findings[n].position + 1 : n \in found } = places
                           /\ \A n, m \in found :
                                  n < m => ret.findings[n].position
                                              < ret.findings[m].position

\* C23: every finding of extract_synapse_ids_with_context has its synapse_id
\* as a substring of full_context, a context_before of at most context_size
\* characters and a context_after of at most context_size characters.
C23_ContextHoldsIdentifier ==
    ExtractDone =>
        \A n \in 1..Len(ret.findings) :
            LET f == ret.findings[n]
            IN  /\ Contains(f.full_context, f.synapse_id)
                /\ Len(f.context_before) <= context_size
                /\ Len(f.context_after) <= context_size

\* C23 witness: the text on both sides of a match is longer than the context
\* size, and both contexts are cut to exactly that size.
C23_Witness ==
    /\ ExtractDone
    /\ context_size = 2
    /\ \E n \in 1..Len(ret.findings) :
          /\ ret.findings[n].position > context_size
          /\ ret.findings[n].position + Len(ret.findings[n].synapse_id)
                + context_size < Len(text)
          /\ Len(ret.findings[n].context_before) = context_size
          /\ Len(ret.findings[n].context_after) = context_size

\* C24: the context of every finding of either pipeline (full_context of
\* extract_synapse_ids_with_context with its context_size, context of
\* process_article with its window of 25) is at most
\* 2 x context_size + len(identifier) characters long.
C24_ContextLengthBound ==
    /\ ExtractDone =>
          \A n \in 1..Len(ret.findings) :
              Len(ret.findings[n].full_context)
                  <= 2 * context_size + Len(ret.findings[n].synapse_id)
    /\ ArticleDone =>
          \A n \in 1..Len(ret.findings) :
              Len(ret.findings[n].context)
                  <= 2 * Window + Len(ret.findings[n].synid)

\* The full context of the match of finding f under context size c.
FullContext(f, c) ==
    ExtractContext(text, f.position, f.position + Len(f.synapse_id), c).full

\* The identifiers of a list of findings.
IdsOf(list) == { list[n].synapse_id : n \in 1..Len(list) }

\* C25: for the same text and the same match and all context sizes c1 <= c2,
\* the full_context of extract_context with c2 is at least as long as the one
\* with c1, and the set of identifiers found does not depend on the context
\* size.
C25_ContextSizeMonotone ==
    ExtractDone =>
        LET matches == FindIter(text, 1, FALSE)
            ids == IdsOf(ret.findings)
        IN  \A c \in ContextSizes :
                /\ \A n \in 1..Len(ret.findings) :
                      LET f == ret.findings[n]
                          other == Len(FullContext(f, c))
                      IN  /\ context_size <= c => Len(f.full_context) <= other
                          /\ c <= context_size => other <= Len(f.full_context)
                /\ IdsOf(Extracted(text, matches, deduplication, c, {})) = ids

\* C25 witness: a match whose full context is strictly shorter under a
\* smaller context size and strictly longer under a larger one.
C25_Witness ==
    /\ ExtractDone
    /\ context_size = 2
    /\ \E n \in 1..Len(ret.findings) :
          LET f == ret.findings[n]
          IN  /\ Len(FullContext(f, 0)) < Len(f.full_context)
              /\ Len(f.full_context) < Len(FullContext(f, 5))
              /\ Len(FullContext(f, 5)) < Len(FullContext(f, 100))

\* The call i of the history is an update that returned True.
UpdatedAt(i) == calls[i].op = "update" /\ ~calls[i].raised /\ calls[i].value

\* No update lies strictly between the calls i and j of the history.
NoUpdateBetween(i, j) == \A k \in (i + 1)..(j - 1) : calls[k].op # "update"

\* C26: after update_last_processed_pmc_id(m) returned True,
\* get_last_processed_pmc_id returns m, on the same tracker and on a fresh
\* one made on the same file; after several successful updates it returns
\* the marker of the last one.
C26_GetReturnsLastUpdate ==
    \A j \in 1..Len(calls) :
        calls[j].op = "get" =>
            \A i \in 1..(j - 1) :
                UpdatedAt(i) /\ NoUpdateBetween(i, j) =>
                    ~calls[j].raised /\ calls[j].value = calls[i].arg

\* Two successful updates with different markers, then a get on a fresh
\* tracker that returns the second marker.
C26_Witness ==
    /\ Len(calls) = 3
    /\ UpdatedAt(1)
    /\ UpdatedAt(2)
    /\ calls[1].arg # calls[2].arg
    /\ calls[3].op = "get"
    /\ calls[3].fresh
    /\ calls[3].value = calls[2].arg

\* The last call of the history.
LastCall == calls[Len(calls)]

\* C27: get_last_processed_pmc_id never raises; it returns None when the
\* tracking file is absent, empty, not valid JSON or otherwise unreadable,
\* and the stored marker otherwise.
C27_GetNeverRaises ==
    (calls # <<>> /\ LastCall.op = "get") =>
        /\ ~LastCall.raised
        /\ LastCall.value = IF tracking_file.kind = "object"
                            THEN tracking_file.marker
                            ELSE None

\* An update that failed while writing left the file empty, and the get
\* after it returned None.
C27_Witness ==
    /\ Len(calls) = 2
    /\ calls[1].op = "update"
    /\ calls[1].fault = "write"
    /\ tracking_file.kind = "empty"
    /\ LastCall.op = "get"
    /\ ~LastCall.raised
    /\ LastCall.value = None

\* C28: update_last_processed_pmc_id never raises; it returns True when the
\* record {last_processed_pmc_id, updated_at} was written, the directory of
\* the file being created when missing, and False when the directory cannot
\* be created or the file cannot be written.
C28_UpdateNeverRaises ==
    (calls # <<>> /\ LastCall.op = "update") =>
        /\ ~LastCall.raised
        /\ IF LastCall.fault = "none"
           THEN /\ LastCall.value = TRUE
                /\ tracking_file.kind = "object"
                /\ tracking_file.marker = LastCall.arg
                /\ tracking_file.updated_at
                /\ parent_dir \in {"exists", "readonly"}
           ELSE LastCall.value = FALSE

\* An update failed while writing and returned False, and the next update
\* wrote its record and returned True.
C28_Witness ==
    /\ Len(calls) = 2
    /\ calls[1].op = "update"
    /\ calls[1].fault = "write"
    /\ calls[1].value = FALSE
    /\ LastCall.op = "update"
    /\ LastCall.value = TRUE
    /\ tracking_file.marker = LastCall.arg

\* The name has the form PMC<N>_PMC<M>...: the range token is at its start.
LeadingRange(name) ==
    /\ Len(name) >= 5
    /\ name[1] = "PMC"
    /\ name[2] \in DigitStrs
    /\ name[3] = "_"
    /\ name[4] = "PMC"
    /\ name[5] \in DigitStrs

\* C29: extract_starting_pmc_id returns 'PMC<N>' for a filename of the form
\* PMC<N>_PMC<M>... and None for every other name: a name with no second
\* range token, the empty string, a name whose range token is not at its
\* start.
C29_ExtractStartingPmcId ==
    (calls # <<>> /\ LastCall.op = "extract") =>
        /\ ~LastCall.raised
        /\ LastCall.value = IF LeadingRange(LastCall.arg)
                            THEN <<"PMC", LastCall.arg[2]>>
                            ELSE None

\* Every update strictly between the calls i and j of the history returned
\* False.
OnlyFailedUpdatesBetween(i, j) ==
    \A k \in (i + 1)..(j - 1) :
        calls[k].op = "update" => calls[k].value = FALSE

\* C39: an update that returns False leaves the tracking state unchanged: a
\* following get_last_processed_pmc_id returns the marker stored by the last
\* successful update, at whichever step the failed update failed.
C39_FailedUpdateKeepsMarker ==
    \A j \in 1..Len(calls) :
        calls[j].op = "get" =>
            \A i \in 1..(j - 1) :
                UpdatedAt(i) /\ OnlyFailedUpdatesBetween(i, j) =>
                    ~calls[j].raised /\ calls[j].value = calls[i].arg

\* The process has ended.
Exited == pc \in {"exit0", "exit1"}

\* The places of the loop body of process_http_files.
InLoopBody ==
    pc \in {"download", "sleep", "scan", "write_batch", "write_cum", "remove"}

\* C33: a failure that makes progress impossible ends the process with a
\* non-zero status, a failure local to one corpus file or article does not.
\* The process command goes on to the file or, the input path not existing,
\* exits non-zero; a listing that cannot be fetched exits non-zero with no
\* file downloaded; no step of the loop body lets an error out of
\* process_http_files; a run that let no error out exits zero.
C33_OnlyFatalFailuresExitNonZero ==
    /\ [][(pc = "main" /\ command' = "process")
              => pc' \in {"process_file", "exit1"}]_vars
    /\ []((Exited /\ command = "http" /\ idx = 0)
              => (pc = "exit1" /\ attempted = <<>>))
    /\ [][InLoopBody => (~raising' /\ pc' \notin {"raised", "exit1"})]_vars
    /\ []((Exited /\ command = "http" /\ ~raising) => pc = "exit0")

\* The download of every selected file failed at every attempt, and the
\* process ended with status 0.
C33_Witness ==
    /\ pc = "exit0"
    /\ command = "http"
    /\ Len(attempted) = 2
    /\ tries = MaxRetries
    /\ scanLog = <<>>

\* An entry of the request history that is the outcome of a urlopen call.
IsResponse(e) == e.kind # "sleep"

\* A failure that _make_request is to retry: HTTP 503 or a non-HTTP error.
Transient(e) ==
    \/ e.kind = "error"
    \/ e.kind = "HTTPError" /\ e.detail = 503

\* C34: _make_request makes at most max_retries (3) attempts and always ends,
\* with the body of the first successful attempt or a raised error: it
\* retries after a fixed delay following an HTTP 503 or a non-HTTP error
\* while attempts remain, and raises at once on any other HTTP error status.
C34_BoundedRetryThenEnd ==
    /\ [](LET attempts == SelectSeq(req_log, IsResponse)
              n == Len(attempts)
          IN  /\ n <= MaxRetries
              /\ \A i \in 1..(n - 1) : Transient(attempts[i])
              /\ \A i \in 1..(Len(req_log) - 1) :
                    IsResponse(req_log[i]) =>
                        req_log[i + 1] = [kind |-> "sleep", detail |-> 5]
              /\ rpc = "returned" =>
                    /\ attempts[n].kind = "body"
                    /\ req_ret = [raised |-> FALSE, value |-> attempts[n].detail]
              /\ rpc = "raised" =>
                    /\ attempts[n].kind # "body"
                    /\ req_ret = [raised |-> TRUE, value |-> attempts[n].detail]
                    /\ ~Transient(attempts[n]) \/ n = MaxRetries
              /\ (n > 0 /\ IsResponse(req_log[Len(req_log)])) =>
                    rpc = IF attempts[n].kind = "body" THEN "returned"
                          ELSE IF Transient(attempts[n]) /\ n < MaxRetries
                          THEN "sleep"
                          ELSE "raised")
    /\ <>(rpc \in {"returned", "raised"})

\* A 503 and a connection error were each followed by a sleep and a retry,
\* and the third attempt returned the page.
C34_Witness ==
    /\ rpc = "returned"
    /\ Len(req_log) = 5
    /\ req_log[1] = [kind |-> "HTTPError", detail |-> 503]
    /\ req_log[3].kind = "error"
    /\ req_attempt = 2
    /\ req_ret = [raised |-> FALSE, value |-> "page B"]

\* C35: the pre-pass estimate of _process_xml_file is the number of
\* occurrences of the start marker in the file, so that for a file of
\* well-formed articles, however laid out across lines, the processed count
\* equals the estimate and no mismatch warning is logged.
C35_EstimateCountsStartMarkers ==
    /\ ppc \in {"batch", "collect", "done"} =>
          article_count = StartMarkers(lines, Len(lines))
    /\ (ppc = "done" /\ processed_count = Len(articles)) =>
          (processed_count = article_count /\ warning = "none")

\* C36: _process_xml_file never lets an exception out: when the file cannot
\* be opened, decompressed or read, or the pool breaks, at any point of the
\* scan, it returns the findings accumulated up to that point.
C36_ScanNeverRaises ==
    /\ [](ppc # "raised")
    /\ [][ppc' = "caught" =>
            (ppc \in {"count", "batch"} /\ file_findings' = file_findings)]_vars

\* A read of the file failed after a batch had been collected; the findings
\* of that batch are returned.
C36_Witness ==
    /\ ppc = "caught"
    /\ ~broken
    /\ taken > 0
    /\ taken < Len(articles)
    /\ file_findings # <<>>


FilesWith(r) ==
    { b \in batch_csv :
        b.readable /\ \E i \in 1..Len(b.rows) : b.rows[i] = r }

\* C31: the combined file has as many rows as there are distinct rows, compared
\* on all columns except source_file, across the input files, and the
\* source_file of each row names the corpus file of the first batch file, in
\* sorted order, that holds the row.
C31_CombinedDistinctRows ==
    combine_ret = "output_path" =>
        /\ Len(combined_csv.rows)
               = Cardinality(UNION { { b.rows[i] : i \in 1..Len(b.rows) } :
                                     b \in batch_csv })
        /\ \A k \in 1..Len(combined_csv.rows) :
               \E b \in FilesWith(combined_csv.rows[k].row) :
                   /\ combined_csv.rows[k].source_file = XmlParts(b.xml)
                   /\ \A c \in FilesWith(combined_csv.rows[k].row) \ {b} :
                          StrLess(NameChars(b.xml), NameChars(c.xml))


\* The entries of results, as a mapping: which findings stand under which name.
ResultMapping == { results[k] : k \in 1..Len(results) }

\* The files process_directory is through with.
CollectedFiles == { i \in 1..Len(futures) : futures[i] = "collected" }

\* The entries the sequential loop leaves for a set of files: one for each file
\* that gave at least one finding.
EntriesOf(files) ==
    { [doc |-> DocNames[i], findings |-> dir_files[i].findings] :
        i \in { j \in files : /\ ~dir_files[j].raises
                              /\ dir_files[j].findings # <<>> } }

\* C38: with parallel=True, in whichever order the worker threads finish,
\* process_directory returns the mapping it returns with parallel=False: the
\* entries of exactly the files that gave at least one finding, each name once;
\* a file that raises leaves the entries of the other files as they are, at
\* every turn of the loop.
C38_ParallelEqualsSequential ==
    /\ ResultMapping = EntriesOf(CollectedFiles)
    /\ Len(results) = Cardinality(ResultMapping)
    /\ mpc \in {"generate_summary", "done"} =>
           ResultMapping = EntriesOf(1..Len(dir_files))

\* process_directory has returned from a parallel run in which a file raised
\* and the findings of the last file were stored before those of the first.
C38_Witness ==
    /\ parallel
    /\ mpc = "generate_summary"
    /\ Len(dir_files) = 3
    /\ dir_files[2].raises
    /\ Len(results) = 2
    /\ results[1].doc = DocNames[3]
    /\ results[2].doc = DocNames[1]

\* The documents of the result set that mention the identifier.
DocsMentioning(id) ==
    { r \in ResultMapping :
        \E j \in 1..Len(r.findings) : r.findings[j] = id }

\* The identifiers of the result set.
MentionedIds ==
    UNION { { r.findings[j] : j \in 1..Len(r.findings) } :
            r \in ResultMapping }

\* The identifiers of top_mentioned_ids.
TopIds ==
    { summary.top_mentioned_ids[k][1] :
        k \in 1..Len(summary.top_mentioned_ids) }

\* C32: generate_summary reports the number of documents of the result set,
\* the number of findings, the number of distinct identifiers, and under
\* top_mentioned_ids at most 10 identifiers, each with the number of documents
\* that mention it, none left out that has a higher count than one included.
C32_SummaryCounts ==
    mpc = "done" =>
        /\ summary.total_documents_processed = Cardinality(ResultMapping)
        /\ summary.total_synapse_id_mentions
              = Cardinality({ <<k, j>> \in (1..Len(results)) \X (1..12) :
                                j <= Len(results[k].findings) })
        /\ summary.unique_synapse_ids = Cardinality(MentionedIds)
        /\ Len(summary.top_mentioned_ids) <= 10
        /\ Cardinality(MentionedIds) <= 10 => TopIds = MentionedIds
        /\ Cardinality(MentionedIds) > 10 =>
              Len(summary.top_mentioned_ids) = 10
        /\ Cardinality(TopIds) = Len(summary.top_mentioned_ids)
        /\ TopIds \subseteq MentionedIds
        /\ \A k \in 1..Len(summary.top_mentioned_ids) :
              summary.top_mentioned_ids[k][2]
                = Cardinality(DocsMentioning(summary.top_mentioned_ids[k][1]))
        /\ \A omitted \in MentionedIds \ TopIds : \A kept \in TopIds :
              Cardinality(DocsMentioning(omitted))
                <= Cardinality(DocsMentioning(kept))

\* A summary of more than ten identifiers, of which one mentioned by two
\* documents was met after ten mentioned by one, and one is left out.
C32_Witness ==
    /\ mpc = "done"
    /\ summary.unique_synapse_ids > 10
    /\ Len(summary.top_mentioned_ids) = 10
    /\ summary.top_mentioned_ids[1] = <<11, 2>>
    /\ summary.top_mentioned_ids[2] = <<1, 1>>
    /\ summary.total_synapse_id_mentions = 12

=============================================================================
